---- MODULE Spec2Model ----
(***************************************************************************)
(* Application (application/src/application.ts, registry-backed variant)   *)
(* on top of ServiceProviderRegistry                                       *)
(* (application/src/utilities/service-provider-registry.ts).               *)
(*                                                                         *)
(* The state is the Application's lifecycle state, the registry's four     *)
(* insertion-ordered Maps and two flags, the position of the asynchronous  *)
(* boot() and terminate() calls at their awaits, and the providers' own    *)
(* state.  JavaScript runs each handler to its first await atomically, so  *)
(* one action is one synchronous stretch of code; a provider's boot or     *)
(* terminate task settling is an action of its own.  A call the            *)
(* Application rejects in validateApplicationState, or returns from at     *)
(* once, is a disabled action.  The statistics counters and the logging    *)
(* are left out; the catch of Application.terminate is unreachable,        *)
(* because ServiceProviderRegistry.terminate catches everything.           *)
(***************************************************************************)
EXTENDS Integers, Sequences, FiniteSets, TLC

(***************************************************************************)
(* Bounds of the model.                                                    *)
(***************************************************************************)
MaxRegisterCalls == 2

(***************************************************************************)
(* The providers handed to register().  A provider is a structural value:  *)
(* what it is made of decides how the registry classifies it.              *)
(***************************************************************************)
Providers == {"A", "D", "E", "V", "R", "W", "T"}

Identifiers == {"X", "Y"}

Shape(reg, boot, deferred, terminable, term, prov, provides, binds) ==
  [hasRegister |-> reg, hasBoot |-> boot, isDeferred |-> deferred,
   isTerminable |-> terminable, hasTerminate |-> term, hasProvides |-> prov,
   hasProvidesService |-> prov, hasIsLoaded |-> prov, provides |-> provides,
   binds |-> binds]

ProviderDef ==
  [p \in Providers |->
     CASE p = "A" -> Shape(TRUE, TRUE, FALSE, TRUE, TRUE, FALSE, {}, {})
       [] p = "D" -> Shape(TRUE, TRUE, TRUE, TRUE, TRUE, TRUE, {"X"}, {"X"})
       [] p = "E" -> Shape(TRUE, TRUE, TRUE, FALSE, FALSE, TRUE, {"X"}, {"X"})
       [] p = "R" -> Shape(FALSE, TRUE, FALSE, FALSE, FALSE, FALSE, {}, {})
       [] p = "W" -> Shape(TRUE, TRUE, TRUE, FALSE, FALSE, FALSE, {}, {})
       [] p = "T" -> Shape(TRUE, TRUE, FALSE, TRUE, FALSE, FALSE, {}, {})
       [] OTHER   -> Shape(TRUE, FALSE, FALSE, FALSE, FALSE, FALSE, {}, {})]

DeferredShaped == {p \in Providers : ProviderDef[p].isDeferred}

\* the providers whose register() may throw, and whose boot() may throw at once
RegisterThrowers == {"A", "D"}

BootThrowers == {"D"}

RegisterOutcomes == {f \in [DeferredShaped -> {"ok", "throw"}] :
                       \A p \in DeferredShaped : f[p] = "throw" => p \in RegisterThrowers}

BootOutcomes == {f \in [DeferredShaped -> {"ok", "throw"}] :
                   \A p \in DeferredShaped : f[p] = "throw" => p \in BootThrowers}

(***************************************************************************)
(* IProviderConfig: the two fields the registry reads.  priority may be    *)
(* absent (hasPriority = FALSE).                                           *)
(***************************************************************************)
Configs ==
  {[hasPriority |-> FALSE, priority |-> 0, deferred |-> FALSE],
   [hasPriority |-> TRUE, priority |-> 5, deferred |-> FALSE],
   [hasPriority |-> TRUE, priority |-> -1, deferred |-> TRUE]}

ApplicationState ==
  {"created", "registered", "booting", "booted", "terminating", "terminated", "error"}

Outcomes == {"ok", "throw"}

VARIABLES
  state,               \* Application.state
  providers,           \* ServiceProviderRegistry.providers, in insertion order
  deferredProviders,   \* ServiceProviderRegistry.deferredProviders, in insertion order
  terminableProviders, \* ServiceProviderRegistry.terminableProviders, in insertion order
  providerConfigs,     \* ServiceProviderRegistry.providerConfigs
  booted,              \* ServiceProviderRegistry.booted
  terminating,         \* ServiceProviderRegistry.terminating
  bound,               \* identifiers bound in the container
  loaded,              \* DeferredServiceProvider.loaded, per provider
  bootPc,              \* where Application.boot() stands
  sortedProviders,     \* the local sortedProviders of ServiceProviderRegistry.boot()
  bootIdx,             \* index in sortedProviders of the provider being awaited
  bootTasks,           \* providers whose boot task, started by boot(), has not settled
  termPc,              \* where the Application.terminate() that started the tasks stands
  termWaiting,         \* Application.terminate() calls awaiting an already terminating registry
  termTasks,           \* per provider: its terminate task
  registerCalls,       \* per provider: times its register() was invoked
  bootCalls,           \* per provider: times its boot() was invoked
  terminateCalls,      \* per provider: times its terminate() was invoked
  bootLog,             \* providers in the order boot() invoked their boot
  bootFailures,        \* providers whose boot task, started by boot(), rejected
  getResult,           \* per identifier: how the last get() of it returned
  nRegister            \* calls of Application.register that reached the registry

appVars == <<state>>
registryVars ==
  <<providers, deferredProviders, terminableProviders, providerConfigs, booted, terminating>>
bootVars == <<bootPc, sortedProviders, bootIdx, bootTasks, bootLog, bootFailures>>
termVars == <<termPc, termWaiting, termTasks>>
providerVars == <<loaded, registerCalls, bootCalls, terminateCalls>>

\* the Application and its ServiceProviderRegistry
lifecycleVars ==
  <<state, providers, deferredProviders, terminableProviders, providerConfigs, booted,
    terminating, bound, loaded, bootPc, sortedProviders, bootIdx, bootTasks, termPc,
    termWaiting, termTasks, registerCalls, bootCalls, terminateCalls, bootLog, bootFailures,
    getResult, nRegister>>

VARIABLES
  bindings,            \* ContextualBindingManager.bindings: context key -> IContextualBinding[]
  resolutionCache,     \* ContextualBindingManager.resolutionCache: cache key -> value
  giveCalls,           \* per factory: times it was invoked by resolveContextual
  resolved,            \* what the last resolveContextual did, kept while the binding
                       \* of its pair is neither registered anew nor removed
  bindingOutcome,          \* what the last registerBinding did
  nRegisterBinding     \* calls of registerBinding

contextualVars ==
  <<bindings, resolutionCache, giveCalls, resolved, bindingOutcome, nRegisterBinding>>

VARIABLES
  bindingDictionary,   \* the InversifyJS binding dictionary: identifier -> bindings
  heap,                \* the objects the container has made
  lazyServices,        \* Container.lazyServices: the identifiers with a stored factory
  factoryCalls,        \* per identifier: the invocations of its lazy factory
  lastGet,             \* the get() that was the container's last call, if it was one
  askedScopes,         \* per identifier: the scope arguments register() was called with
  nContainerRegister   \* calls of Container.register

containerVars ==
  <<bindingDictionary, heap, lazyServices, factoryCalls, lastGet, askedScopes,
    nContainerRegister>>

VARIABLES
  metadataObjects,     \* the objects defined as INJECT_PROPERTY metadata
  ownMetadata,         \* per class: the index of the object defined on it, 0 when none
  declared,            \* per class: the members declared on it, as last declared
  injectionCache,      \* PropertyInjectionResolver.injectionCache
  lastInjections,      \* what the last getPropertyInjections returned
  nInject,             \* property decorators applied
  targets,             \* the objects handed to resolveProperties
  lastResolve          \* what the last resolveProperties did

injectionVars ==
  <<metadataObjects, ownMetadata, declared, injectionCache, lastInjections, nInject,
    targets, lastResolve>>

\* the utilities beside the Application and the Container
VARIABLES
  storageClass,            \* which of the two definitions of MetadataStorage is built
  targetMetadata,          \* MetadataStorage.targetMetadata
  targetPropertyMetadata,  \* MetadataStorage.targetPropertyMetadata
  stats,                   \* MetadataStorage.stats (part_000)
  lastStorageCall,         \* what the last call of the storage returned
  stored,                  \* the (target, propertyKey) pairs set was ever called with
  nStorageCalls            \* calls of the storage

storageVars ==
  <<storageClass, targetMetadata, targetPropertyMetadata, stats, lastStorageCall,
    stored, nStorageCalls>>

VARIABLES
  reflectionCache,         \* MetadataReflector.reflectionCache
  reflected,               \* per (target, query): the first result since the cache was cleared
  lastReflection           \* what the last query of the reflector returned

reflectorVars == <<reflectionCache, reflected, lastReflection>>

VARIABLES
  decorators,              \* DecoratorRegistry.decorators: id -> registration
  decoratorsByType,        \* DecoratorRegistry.decoratorsByType: type -> ids
  registeredIds,           \* the ids registered and not unregistered since
  lastRegistryCall         \* what the last call of the registry returned

decoratorVars == <<decorators, decoratorsByType, registeredIds, lastRegistryCall>>

\* the registry called directly, as application.ts calls its own boot()
VARIABLES
  bootRuns,                \* the boot() calls that passed `if (this.booted)`, in call order
  lastCanResolve           \* what the last canResolve returned

directVars == <<bootRuns, lastCanResolve>>

utilityVars == <<injectionVars, storageVars, reflectorVars, decoratorVars, directVars>>

\* the Application, the Container and its ContextualBindingManager
programVars == <<lifecycleVars, contextualVars, containerVars>>

besidesInjection == <<programVars, storageVars, reflectorVars, decoratorVars, directVars>>

besidesStorage ==
  <<programVars, injectionVars, reflectorVars, decoratorVars, directVars>>

besidesUtilities == <<programVars, injectionVars, decoratorVars, directVars>>

besidesDecorators ==
  <<programVars, injectionVars, storageVars, reflectorVars, directVars>>

\* everything that is not the Application's or its registry's
otherVars == <<contextualVars, containerVars, utilityVars>>

vars ==
  <<state, providers, deferredProviders, terminableProviders, providerConfigs, booted,
    terminating, bound, loaded, bootPc, sortedProviders, bootIdx, bootTasks, termPc,
    termWaiting, termTasks, registerCalls, bootCalls, terminateCalls, bootLog, bootFailures,
    getResult, nRegister, contextualVars, containerVars, utilityVars>>

(***************************************************************************)
(* A JavaScript Map of providers keyed by constructor name, kept as the    *)
(* sequence of its keys in insertion order.                                *)
(***************************************************************************)
Range(s) == {s[i] : i \in 1..Len(s)}

MapHas(m, p) == p \in Range(m)

MapSet(m, p) == IF MapHas(m, p) THEN m ELSE Append(m, p)

MapDelete(m, p) == SelectSeq(m, LAMBDA q : q # p)

IndexOf(m, p) == CHOOSE i \in 1..Len(m) : m[i] = p

(***************************************************************************)
(* ServiceProviderRegistry: the private helpers.                           *)
(***************************************************************************)
IsDeferredProvider(p) == ProviderDef[p].isDeferred

IsTerminableProvider(p) == ProviderDef[p].isTerminable

\* Variant of ValidateProvider that checks register() and boot() only.
ValidateProviderRegisterAndBootOnly(p) ==
  /\ ProviderDef[p].hasRegister
  /\ ProviderDef[p].hasBoot

ValidateProvider(p) ==
  /\ ProviderDef[p].hasRegister
  /\ ProviderDef[p].hasBoot
  /\ IsDeferredProvider(p) =>
       /\ ProviderDef[p].hasProvides
       /\ ProviderDef[p].hasProvidesService
       /\ ProviderDef[p].hasIsLoaded
  /\ IsTerminableProvider(p) => ProviderDef[p].hasTerminate

ProvidesService(p, id) == id \in ProviderDef[p].provides

IsLoaded(ld, p) == ld[p]

ConfigSet(cfgs, p, cfg) ==
  [q \in DOMAIN cfgs \cup {p} |-> IF q = p THEN cfg ELSE cfgs[q]]

\* configA?.priority || 0
PriorityOf(cfgs, p) ==
  IF p \in DOMAIN cfgs /\ cfgs[p].hasPriority THEN cfgs[p].priority ELSE 0

\* Variant of Compare with the operands swapped (lower priority first).
CompareAscending(cfgs, a, b) == PriorityOf(cfgs, a) - PriorityOf(cfgs, b)

\* the comparator handed to Array.prototype.sort
Compare(cfgs, a, b) == PriorityOf(cfgs, b) - PriorityOf(cfgs, a)

\* Array.prototype.sort is stable: x goes behind every element the comparator
\* does not put after it.
SortInsert(sorted, x, cfgs) ==
  LET k == Cardinality({i \in 1..Len(sorted) : Compare(cfgs, sorted[i], x) <= 0})
  IN SubSeq(sorted, 1, k) \o <<x>> \o SubSeq(sorted, k + 1, Len(sorted))

RECURSIVE SortBy(_, _)
SortBy(m, cfgs) ==
  IF m = <<>> THEN <<>>
  ELSE SortInsert(SortBy(SubSeq(m, 1, Len(m) - 1), cfgs), m[Len(m)], cfgs)

GetSortedProviders(m, cfgs) == SortBy(m, cfgs)

(***************************************************************************)
(* loadDeferredProviderIfNeeded: the loop over deferredProviders.entries().*)
(* r is the registry, the container and the providers' call counts as the  *)
(* loop has left them so far; regOut and bootOut say, per provider, whether*)
(* its register() and its boot() return or throw when invoked here.        *)
(***************************************************************************)
RECURSIVE LoadLoop(_, _, _, _, _, _, _)
LoadLoop(todo, r, id, regOut, bootOut, isBooted, ld) ==
  IF todo = <<>> THEN r
  ELSE
    LET p == Head(todo)
        moved == [r EXCEPT !.deferredProviders = MapDelete(@, p),
                           !.providers = MapSet(@, p),
                           !.registerCalls[p] = @ + 1]
        registered == [moved EXCEPT !.bound = @ \cup ProviderDef[p].binds]
        bootedToo == IF isBooted THEN [registered EXCEPT !.bootCalls[p] = @ + 1]
                     ELSE registered
        filed == [bootedToo EXCEPT !.terminableProviders =
                                     IF IsTerminableProvider(p) THEN MapSet(@, p) ELSE @]
    IN IF ProvidesService(p, id) /\ ~IsLoaded(ld, p)
       THEN IF regOut[p] = "throw"
            THEN LoadLoop(Tail(todo), moved, id, regOut, bootOut, isBooted, ld)
            ELSE IF isBooted /\ bootOut[p] = "throw"
                 THEN LoadLoop(Tail(todo), bootedToo, id, regOut, bootOut, isBooted, ld)
                 ELSE filed
       ELSE LoadLoop(Tail(todo), r, id, regOut, bootOut, isBooted, ld)

LoadDeferredProviderIfNeeded(id, regOut, bootOut) ==
  LoadLoop(deferredProviders,
           [providers |-> providers, deferredProviders |-> deferredProviders,
            terminableProviders |-> terminableProviders,
            registerCalls |-> registerCalls, bootCalls |-> bootCalls, bound |-> bound],
           id, regOut, bootOut, booted, loaded)

(***************************************************************************)
(* ServiceProviderRegistry.register.  out is what the provider's own       *)
(* register() does when it is invoked.                                     *)
(***************************************************************************)
InvokesRegister(p, cfg) ==
  ValidateProvider(p) /\ ~IsDeferredProvider(p) /\ ~cfg.deferred

RegisterThrows(p, cfg, out) ==
  ~ValidateProvider(p) \/ (InvokesRegister(p, cfg) /\ out = "throw")

\* Variant of RegistryRegister that does not look at config.deferred.
RegistryRegisterIgnoringConfig(p, cfg, out) ==
  /\ UNCHANGED <<booted, terminating>>
  /\ IF ~ValidateProvider(p)
     THEN UNCHANGED <<providers, deferredProviders, terminableProviders,
                      providerConfigs, registerCalls, bound>>
     ELSE /\ providerConfigs' = ConfigSet(providerConfigs, p, cfg)
          /\ IF IsDeferredProvider(p)
             THEN /\ deferredProviders' = MapSet(deferredProviders, p)
                  /\ UNCHANGED <<providers, terminableProviders, registerCalls, bound>>
             ELSE /\ providers' = MapSet(providers, p)
                  /\ terminableProviders' =
                       IF IsTerminableProvider(p) THEN MapSet(terminableProviders, p)
                       ELSE terminableProviders
                  /\ UNCHANGED deferredProviders
                  /\ registerCalls' = [registerCalls EXCEPT ![p] = @ + 1]
                  /\ bound' = IF out = "ok" THEN bound \cup ProviderDef[p].binds
                              ELSE bound

RegistryRegister(p, cfg, out) ==
  /\ UNCHANGED <<booted, terminating>>
  /\ IF ~ValidateProvider(p)
     THEN UNCHANGED <<providers, deferredProviders, terminableProviders,
                      providerConfigs, registerCalls, bound>>
     ELSE /\ providerConfigs' = ConfigSet(providerConfigs, p, cfg)
          /\ IF IsDeferredProvider(p)
             THEN /\ deferredProviders' = MapSet(deferredProviders, p)
                  /\ UNCHANGED <<providers, terminableProviders, registerCalls, bound>>
             ELSE /\ providers' = MapSet(providers, p)
                  /\ terminableProviders' =
                       IF IsTerminableProvider(p) THEN MapSet(terminableProviders, p)
                       ELSE terminableProviders
                  /\ UNCHANGED deferredProviders
                  /\ IF ~cfg.deferred
                     THEN /\ registerCalls' = [registerCalls EXCEPT ![p] = @ + 1]
                          /\ bound' = IF out = "ok" THEN bound \cup ProviderDef[p].binds
                                      ELSE bound
                     ELSE UNCHANGED <<registerCalls, bound>>

(***************************************************************************)
(* Application.register                                                    *)
(***************************************************************************)
ValidateApplicationState(allowedStates) == state \in allowedStates

AppRegister(p, cfg, out) ==
  /\ ValidateApplicationState({"created", "registered"})
  /\ out = "throw" => InvokesRegister(p, cfg) /\ p \in RegisterThrowers
  /\ nRegister < MaxRegisterCalls
  /\ nRegister' = nRegister + 1
  /\ RegistryRegister(p, cfg, out)
  /\ state' = IF RegisterThrows(p, cfg, out) THEN state ELSE "registered"
  /\ UNCHANGED <<bootVars, termVars, loaded, bootCalls, terminateCalls, getResult>>
  /\ UNCHANGED otherVars

(***************************************************************************)
(* Application.get, which is ServiceProviderRegistry.resolve               *)
(***************************************************************************)
\* Variant of RegistryResolve that asks the container before it loads the
\* deferred provider.
RegistryResolveLookupFirst(id, regOut, bootOut) ==
  LET r == LoadDeferredProviderIfNeeded(id, regOut, bootOut)
  IN /\ providers' = r.providers
     /\ deferredProviders' = r.deferredProviders
     /\ terminableProviders' = r.terminableProviders
     /\ registerCalls' = r.registerCalls
     /\ bootCalls' = r.bootCalls
     /\ bound' = r.bound
     /\ getResult' = [getResult EXCEPT ![id] = IF id \in bound THEN "ok" ELSE "throw"]
     /\ UNCHANGED <<providerConfigs, booted, terminating>>

\* container.get(identifier) behind loadDeferredProviderIfNeeded(identifier)
RegistryResolve(id, regOut, bootOut) ==
  LET r == LoadDeferredProviderIfNeeded(id, regOut, bootOut)
  IN /\ providers' = r.providers
     /\ deferredProviders' = r.deferredProviders
     /\ terminableProviders' = r.terminableProviders
     /\ registerCalls' = r.registerCalls
     /\ bootCalls' = r.bootCalls
     /\ bound' = r.bound
     /\ getResult' = [getResult EXCEPT ![id] = IF id \in r.bound THEN "ok" ELSE "throw"]
     /\ UNCHANGED <<providerConfigs, booted, terminating>>

\* what a provider's register() or boot() does matters only where it is invoked
Invoked(id, regOut, bootOut) ==
  \A p \in DeferredShaped :
    /\ regOut[p] = "throw" => MapHas(deferredProviders, p) /\ ProvidesService(p, id)
    /\ bootOut[p] = "throw" =>
         MapHas(deferredProviders, p) /\ ProvidesService(p, id) /\ booted

AppGet(id, regOut, bootOut) ==
  /\ Invoked(id, regOut, bootOut)
  /\ RegistryResolve(id, regOut, bootOut)
  /\ UNCHANGED <<state, bootVars, termVars, loaded, terminateCalls, nRegister>>
  /\ UNCHANGED otherVars

(***************************************************************************)
(* Application.boot over ServiceProviderRegistry.boot.  bootPc:            *)
(*   "idle"      boot() has not passed validateApplicationState            *)
(*   "awaiting"  the registry awaits bootProvider(sortedProviders[bootIdx])*)
(*   "resolved"  the registry's boot() has resolved, Application.boot has  *)
(*               not resumed yet                                           *)
(*   "rejected"  the registry's boot() has rejected, Application.boot has  *)
(*               not resumed yet                                           *)
(*   "done"      Application.boot() resolved                               *)
(*   "failed"    Application.boot() rejected                               *)
(***************************************************************************)
\* the loop of ServiceProviderRegistry.boot from entry i on, up to its next await
BootFrom(sorted, i, settled) ==
  IF i <= Len(sorted)
  THEN /\ bootCalls' = [bootCalls EXCEPT ![sorted[i]] = @ + 1]
       /\ bootTasks' = (bootTasks \ settled) \cup {sorted[i]}
       /\ bootLog' = Append(bootLog, sorted[i])
       /\ bootIdx' = i
       /\ bootPc' = "awaiting"
       /\ UNCHANGED booted
  ELSE /\ booted' = TRUE
       /\ bootTasks' = bootTasks \ settled
       /\ bootPc' = "resolved"
       /\ UNCHANGED <<bootCalls, bootLog, bootIdx>>

\* Variant of RegistryBoot that starts every provider's boot without awaiting
\* the one before.
RegistryBootAllAtOnce ==
  IF booted
  THEN /\ bootPc' = "resolved"
       /\ UNCHANGED <<booted, sortedProviders, bootIdx, bootTasks, bootLog, bootFailures,
                      bootCalls>>
  ELSE /\ sortedProviders' = GetSortedProviders(providers, providerConfigs)
       /\ UNCHANGED bootFailures
       /\ IF sortedProviders' = <<>>
          THEN BootFrom(sortedProviders', 1, {})
          ELSE /\ bootCalls' = [p \in Providers |->
                                  IF MapHas(sortedProviders', p) THEN bootCalls[p] + 1
                                  ELSE bootCalls[p]]
               /\ bootTasks' = Range(sortedProviders')
               /\ bootLog' = bootLog \o sortedProviders'
               /\ bootIdx' = 1
               /\ bootPc' = "awaiting"
               /\ UNCHANGED booted

RegistryBoot ==
  IF booted
  THEN /\ bootPc' = "resolved"
       /\ UNCHANGED <<booted, sortedProviders, bootIdx, bootTasks, bootLog, bootFailures,
                      bootCalls>>
  ELSE /\ sortedProviders' = GetSortedProviders(providers, providerConfigs)
       /\ BootFrom(sortedProviders', 1, {})
       /\ UNCHANGED bootFailures

AppBoot ==
  /\ ValidateApplicationState({"created", "registered"})
  /\ state' = "booting"
  /\ RegistryBoot
  /\ UNCHANGED <<providers, deferredProviders, terminableProviders, providerConfigs,
                 terminating, bound, loaded, termVars, registerCalls, terminateCalls,
                 getResult, nRegister>>
  /\ UNCHANGED otherVars

\* Variant of BootTaskSettle in which bootProvider swallows the failure and the
\* loop goes on.
BootTaskSettleContinue(out) ==
  /\ bootPc = "awaiting"
  /\ sortedProviders[bootIdx] \in bootTasks
  /\ BootFrom(sortedProviders, bootIdx + 1, {sortedProviders[bootIdx]})
  /\ bootFailures' = IF out = "ok" THEN bootFailures
                     ELSE bootFailures \cup {sortedProviders[bootIdx]}
  /\ UNCHANGED <<state, providers, deferredProviders, terminableProviders,
                 providerConfigs, terminating, bound, loaded, sortedProviders, termVars,
                 registerCalls, terminateCalls, getResult, nRegister>>
  /\ UNCHANGED otherVars

\* the awaited provider's boot task settles; the registry's loop goes on
BootTaskSettle(out) ==
  /\ bootPc = "awaiting"
  /\ sortedProviders[bootIdx] \in bootTasks
  /\ IF out = "ok"
     THEN /\ BootFrom(sortedProviders, bootIdx + 1, {sortedProviders[bootIdx]})
          /\ UNCHANGED bootFailures
     ELSE /\ bootPc' = "rejected"
          /\ bootTasks' = bootTasks \ {sortedProviders[bootIdx]}
          /\ bootFailures' = bootFailures \cup {sortedProviders[bootIdx]}
          /\ UNCHANGED <<booted, bootCalls, bootLog, bootIdx>>
  /\ UNCHANGED <<state, providers, deferredProviders, terminableProviders,
                 providerConfigs, terminating, bound, loaded, sortedProviders, termVars,
                 registerCalls, terminateCalls, getResult, nRegister>>
  /\ UNCHANGED otherVars

\* Application.boot resumes behind `await this.providerRegistry.boot()`
AppBootResume ==
  /\ bootPc \in {"resolved", "rejected"}
  /\ state' = IF bootPc = "resolved" THEN "booted" ELSE "error"
  /\ bootPc' = IF bootPc = "resolved" THEN "done" ELSE "failed"
  /\ UNCHANGED <<registryVars, bound, providerVars, sortedProviders, bootIdx, bootTasks,
                 bootLog, bootFailures, termVars, getResult, nRegister>>
  /\ UNCHANGED otherVars

(***************************************************************************)
(* Application.terminate over ServiceProviderRegistry.terminate.           *)
(* termTasks[p]: "none", "running", "ok" or "failed".                      *)
(***************************************************************************)
\* Variant of RegistryTerminate without the `if (this.terminating) return`.
RegistryTerminateUnguarded ==
  /\ terminating' = TRUE
  /\ termPc' = "awaiting"
  /\ termTasks' = [p \in Providers |->
                     IF MapHas(terminableProviders, p) THEN "running"
                     ELSE termTasks[p]]
  /\ terminateCalls' = [p \in Providers |->
                          IF MapHas(terminableProviders, p)
                          THEN terminateCalls[p] + 1 ELSE terminateCalls[p]]
  /\ UNCHANGED termWaiting

RegistryTerminate ==
  IF terminating
  THEN /\ termWaiting' = termWaiting + 1
       /\ UNCHANGED <<terminating, termPc, termTasks, terminateCalls>>
  ELSE /\ terminating' = TRUE
       /\ termPc' = "awaiting"
       /\ termTasks' = [p \in Providers |->
                          IF MapHas(terminableProviders, p) THEN "running"
                          ELSE termTasks[p]]
       /\ terminateCalls' = [p \in Providers |->
                               IF MapHas(terminableProviders, p)
                               THEN terminateCalls[p] + 1 ELSE terminateCalls[p]]
       /\ UNCHANGED termWaiting

AppTerminate ==
  /\ state \notin {"terminating", "terminated"}
  /\ state' = "terminating"
  /\ RegistryTerminate
  /\ UNCHANGED <<providers, deferredProviders, terminableProviders, providerConfigs,
                 booted, bound, loaded, bootVars, registerCalls, bootCalls, getResult,
                 nRegister>>
  /\ UNCHANGED otherVars

\* a provider's terminate task settles; a failure is caught and logged
TerminateTaskSettle(p, out) ==
  /\ termTasks[p] = "running"
  /\ termTasks' = [termTasks EXCEPT ![p] = IF out = "ok" THEN "ok" ELSE "failed"]
  /\ UNCHANGED <<state, registryVars, bound, providerVars, bootVars, termPc, termWaiting,
                 getResult, nRegister>>
  /\ UNCHANGED otherVars

\* Variant of AppTerminateResume in which a provider's failure is not caught:
\* Promise.all rejects and Application.terminate's catch sets ERROR.
AppTerminateResumeRethrow ==
  /\ termPc = "awaiting"
  /\ \A p \in Providers : termTasks[p] # "running"
  /\ termPc' = "done"
  /\ state' = IF \E p \in Providers : termTasks[p] = "failed" THEN "error"
              ELSE "terminated"
  /\ UNCHANGED <<registryVars, bound, providerVars, bootVars, termWaiting, termTasks,
                 getResult, nRegister>>
  /\ UNCHANGED otherVars

\* Promise.all has resolved: the terminate() that started the tasks resumes
AppTerminateResume ==
  /\ termPc = "awaiting"
  /\ \A p \in Providers : termTasks[p] # "running"
  /\ termPc' = "done"
  /\ state' = "terminated"
  /\ UNCHANGED <<registryVars, bound, providerVars, bootVars, termWaiting, termTasks,
                 getResult, nRegister>>
  /\ UNCHANGED otherVars

\* a terminate() that found the registry already terminating resumes
AppTerminateResumeWaiting ==
  /\ termWaiting > 0
  /\ termWaiting' = termWaiting - 1
  /\ state' = "terminated"
  /\ UNCHANGED <<registryVars, bound, providerVars, bootVars, termPc, termTasks,
                 getResult, nRegister>>
  /\ UNCHANGED otherVars

(***************************************************************************)
(* JavaScript values, as far as the contextual bindings tell them apart:   *)
(* type is what typeof yields, text is a string's content, a symbol's      *)
(* description or a function's name, id tells apart two values of equal    *)
(* text (two symbols of one description, two objects of one factory).      *)
(***************************************************************************)
JsValue(type, text, id) == [type |-> type, text |-> text, id |-> id]

Str(text) == JsValue("string", text, 0)

Sym(description, id) == JsValue("symbol", description, id)

Fn(name) == JsValue("function", name, 0)

Undefined == JsValue("undefined", "undefined", 0)

Null == JsValue("null", "null", 0)

\* the object the n-th invocation of factory f returns
Made(f, n) == JsValue("object", f.text, n)

\* ToBoolean, for the values above
Truthy(v) == ~(v.type \in {"undefined", "null"} \/ (v.type = "string" /\ v.text = ""))

\* String(v) and Symbol.prototype.toString
JsToString(v) == IF v.type = "symbol" THEN "Symbol(" \o v.text \o ")" ELSE v.text

(***************************************************************************)
(* ContextualBindingManager (container/src/utilities/                      *)
(* contextual-binding-manager.ts).  bindings is a Map from context key to  *)
(* an array of IContextualBinding, kept as a function whose domain is the  *)
(* keys present; resolutionCache likewise.                                 *)
(***************************************************************************)
MaxBindingCalls == 2

MaxGiveCalls == 2

Whens == {Str("Report"), Str("Audit"), Undefined}

Contexts == {Str("Report"), Str("Audit")}

Needs == {Sym("Fmt", 1), Sym("Fmt", 2), Undefined}

ContextualIdentifiers == {Sym("Fmt", 1), Sym("Fmt", 2)}

Factories == {Fn("F")}

Gives == {Str("csv"), Undefined} \cup Factories

BindingScopes == {Str("singleton"), Str("transient"), Str("bogus"), Str("")}

ContextualBinding(when, needs, give, scope) ==
  [when |-> when, needs |-> needs, give |-> give, scope |-> scope]

GetContextKey(context) ==
  CASE context.type = "string" -> context.text
    [] context.type = "symbol" -> JsToString(context)
    [] context.type = "function" -> context.text
    [] context.type = "object" -> context.text
    [] OTHER -> JsToString(context)

GetCacheKey(context, serviceIdentifier) ==
  GetContextKey(context) \o ":" \o JsToString(serviceIdentifier)

MatchesService(bindingService, requestedService) == bindingService = requestedService

ValidateBinding(binding) ==
  /\ ~(~Truthy(binding.when) \/ ~Truthy(binding.needs) \/ binding.give = Undefined)
  /\ ~(/\ Truthy(binding.scope)
       /\ binding.scope \notin {Str("singleton"), Str("transient"), Str("request")})

\* this.bindings.get(contextKey) || []
BindingsGet(bs, contextKey) == IF contextKey \in DOMAIN bs THEN bs[contextKey] ELSE <<>>

MapPut(m, key, value) == [k \in DOMAIN m \cup {key} |-> IF k = key THEN value ELSE m[k]]

MapRemove(m, key) == [k \in DOMAIN m \ {key} |-> m[k]]

\* Array.prototype.findIndex, 0 for -1
FindIndex(list, needs) ==
  IF \E i \in 1..Len(list) : MatchesService(list[i].needs, needs)
  THEN CHOOSE i \in 1..Len(list) :
         /\ MatchesService(list[i].needs, needs)
         /\ \A j \in 1..(i - 1) : ~MatchesService(list[j].needs, needs)
  ELSE 0

ClearResolutionCache == resolutionCache' = <<>>

NoResolution == [context |-> Undefined, needs |-> Undefined, out |-> "none",
                 value |-> Undefined]

\* the binding of the pair (contextKey, needs) changes: a resolution of that pair
\* is no longer one of the binding registered
ForgetResolved(contextKey, needs) ==
  resolved' = IF /\ resolved.out # "none"
                 /\ GetContextKey(resolved.context) = contextKey
                 /\ resolved.needs = needs
              THEN NoResolution
              ELSE resolved

\* Variant of RegisterBinding that leaves the resolution cache as it is.
RegisterBindingKeepingCache(binding) ==
  /\ nRegisterBinding < MaxBindingCalls
  /\ nRegisterBinding' = nRegisterBinding + 1
  /\ IF ~ValidateBinding(binding)
     THEN /\ bindingOutcome' = "throw"
          /\ UNCHANGED <<bindings, resolutionCache, resolved>>
     ELSE LET contextKey == GetContextKey(binding.when)
              list == BindingsGet(bindings, contextKey)
              existingIndex == FindIndex(list, binding.needs)
          IN /\ bindings' = MapPut(bindings, contextKey,
                                   IF existingIndex > 0
                                   THEN [list EXCEPT ![existingIndex] = binding]
                                   ELSE Append(list, binding))
             /\ UNCHANGED resolutionCache
             /\ ForgetResolved(contextKey, binding.needs)
             /\ bindingOutcome' = "ok"
  /\ UNCHANGED giveCalls

RegisterBinding(binding) ==
  /\ nRegisterBinding < MaxBindingCalls
  /\ nRegisterBinding' = nRegisterBinding + 1
  /\ IF ~ValidateBinding(binding)
     THEN /\ bindingOutcome' = "throw"
          /\ UNCHANGED <<bindings, resolutionCache, resolved>>
     ELSE LET contextKey == GetContextKey(binding.when)
              list == BindingsGet(bindings, contextKey)
              existingIndex == FindIndex(list, binding.needs)
          IN /\ bindings' = MapPut(bindings, contextKey,
                                   IF existingIndex > 0
                                   THEN [list EXCEPT ![existingIndex] = binding]
                                   ELSE Append(list, binding))
             /\ ClearResolutionCache
             /\ ForgetResolved(contextKey, binding.needs)
             /\ bindingOutcome' = "ok"
  /\ UNCHANGED giveCalls

\* the first binding of the list that matches, <<>> when there is none
FirstMatch(list, serviceIdentifier) ==
  IF FindIndex(list, serviceIdentifier) = 0 THEN <<>>
  ELSE <<list[FindIndex(list, serviceIdentifier)]>>

(***************************************************************************)
(* resolveContextual on the manager state (bs, cache, calls): what it      *)
(* returns or throws and the cache and the factories' call counts it       *)
(* leaves.  giveOut says whether the factory, if invoked, returns or       *)
(* throws.                                                                 *)
(***************************************************************************)
ResolveContextualResult(bs, cache, calls, context, serviceIdentifier, giveOut) ==
  LET cacheKey == GetCacheKey(context, serviceIdentifier)
      match == FirstMatch(BindingsGet(bs, GetContextKey(context)), serviceIdentifier)
  IN IF cacheKey \in DOMAIN cache
     THEN [out |-> "ok", value |-> cache[cacheKey], cache |-> cache, calls |-> calls,
           invoked |-> FALSE]
     ELSE IF match = <<>>
     THEN [out |-> "ok", value |-> Null, cache |-> cache, calls |-> calls,
           invoked |-> FALSE]
     ELSE LET binding == match[1]
              isFactory == binding.give.type = "function"
              called == IF isFactory THEN [calls EXCEPT ![binding.give] = @ + 1]
                        ELSE calls
              resolvedService == IF isFactory
                                 THEN Made(binding.give, called[binding.give])
                                 ELSE binding.give
          IN IF isFactory /\ giveOut = "throw"
             THEN [out |-> "throw", value |-> Undefined, cache |-> cache,
                   calls |-> called, invoked |-> TRUE]
             ELSE [out |-> "ok", value |-> resolvedService,
                   cache |-> IF binding.scope = Str("singleton")
                             THEN MapPut(cache, cacheKey, resolvedService)
                             ELSE cache,
                   calls |-> called, invoked |-> isFactory]

ResolveContextual(context, serviceIdentifier, giveOut) ==
  LET r == ResolveContextualResult(bindings, resolutionCache, giveCalls, context,
                                   serviceIdentifier, giveOut)
  IN /\ giveOut = "throw" => r.out = "throw"
     /\ \A f \in Factories : r.calls[f] <= MaxGiveCalls
     /\ resolved' = [context |-> context, needs |-> serviceIdentifier, out |-> r.out,
                     value |-> r.value]
     /\ resolutionCache' = r.cache
     /\ giveCalls' = r.calls
     /\ UNCHANGED <<bindings, bindingOutcome, nRegisterBinding>>

HasContextualBinding(bs, context, serviceIdentifier) ==
  FirstMatch(BindingsGet(bs, GetContextKey(context)), serviceIdentifier) # <<>>

RemoveBinding(context, serviceIdentifier) ==
  LET contextKey == GetContextKey(context)
      list == BindingsGet(bindings, contextKey)
      filteredBindings ==
        SelectSeq(list, LAMBDA b : ~MatchesService(b.needs, serviceIdentifier))
  IN /\ contextKey \in DOMAIN bindings
     /\ Len(filteredBindings) < Len(list)
     /\ bindings' = IF filteredBindings = <<>> THEN MapRemove(bindings, contextKey)
                    ELSE MapPut(bindings, contextKey, filteredBindings)
     /\ ClearResolutionCache
     /\ ForgetResolved(contextKey, serviceIdentifier)
     /\ UNCHANGED <<giveCalls, bindingOutcome, nRegisterBinding>>

\* clear(): every binding and the cache go
Clear ==
  /\ bindings # <<>>
  /\ bindings' = <<>>
  /\ ClearResolutionCache
  /\ resolved' = NoResolution
  /\ UNCHANGED <<giveCalls, bindingOutcome, nRegisterBinding>>

ContextualInit ==
  /\ bindings = <<>>
  /\ resolutionCache = <<>>
  /\ giveCalls = [f \in Factories |-> 0]
  /\ resolved = NoResolution
  /\ bindingOutcome = "none"
  /\ nRegisterBinding = 0

\* the manager called directly
ManagerRegisterBinding(binding) ==
  /\ RegisterBinding(binding)
  /\ UNCHANGED <<lifecycleVars, utilityVars, containerVars>>

ManagerResolveContextual(context, serviceIdentifier, giveOut) ==
  /\ ResolveContextual(context, serviceIdentifier, giveOut)
  /\ UNCHANGED <<lifecycleVars, utilityVars, containerVars>>

ManagerRemoveBinding(context, serviceIdentifier) ==
  /\ RemoveBinding(context, serviceIdentifier)
  /\ UNCHANGED <<lifecycleVars, utilityVars, containerVars>>

ManagerClear ==
  /\ Clear
  /\ UNCHANGED <<lifecycleVars, utilityVars, containerVars>>

ContextualNext ==
  \/ \E when \in Whens, needs \in Needs, give \in Gives, scope \in BindingScopes :
       ManagerRegisterBinding(ContextualBinding(when, needs, give, scope))
  \/ \E context \in Contexts, serviceIdentifier \in ContextualIdentifiers,
        giveOut \in Outcomes :
       ManagerResolveContextual(context, serviceIdentifier, giveOut)
  \/ \E context \in Contexts, serviceIdentifier \in ContextualIdentifiers :
       ManagerRemoveBinding(context, serviceIdentifier)
  \/ ManagerClear

(***************************************************************************)
(* Container (container/src/container.ts), which extends the InversifyJS   *)
(* Container.  Of InversifyJS the model keeps the binding dictionary:      *)
(* bind() appends a binding to the identifier's list, get() throws when    *)
(* the list is empty or holds more than one binding, a ConstantValue       *)
(* binding yields its value, an Instance binding a new object, kept in the *)
(* binding when its scope is Singleton.  The classes bound here have no    *)
(* constructor parameters.  An object lives in heap; its reference is      *)
(* JsValue("object", class, index).  The serviceMetadata Map and the       *)
(* statistics are left out.                                                *)
(***************************************************************************)
MaxContainerRegisterCalls == 2

MaxObjects == 3

\* invocations of a lazy factory
MaxFactoryCalls == 2

StackDepth == 3

Classes == {"Plain", "Needy"}

PropertyKeys == {"dep"}

\* what register() is handed as implementation: a class or a value that is no function
Implementations == {Fn("Plain"), Fn("Needy"), Str("k")}

\* a class is not bound to the identifier it injects: that recurses without end
Bindable(id, implementation) == implementation = Fn("Needy") => id = "X"

ContainerScopes == {"singleton", "transient"}

Callers == {Str("Report"), Undefined}

Absent == JsValue("absent", "absent", 0)

\* the @Inject property declarations of a class, as getPropertyInjections lists them
PropertyInjections(cls) ==
  IF cls = "Needy"
  THEN <<[propertyKey |-> "dep", serviceIdentifier |-> "Y", optional |-> FALSE]>>
  ELSE <<>>

Returned(st, value) == [st |-> st, out |-> "ok", value |-> value, error |-> "none"]

Thrown(st, error) == [st |-> st, out |-> "throw", value |-> Undefined, error |-> error]

\* new cls(): the store with the object added
Allocate(st, cls) ==
  [st EXCEPT !.heap = Append(@, [constructor |-> cls,
                                 props |-> [k \in PropertyKeys |-> Absent]])]

NewestObject(st) == JsValue("object", st.heap[Len(st.heap)].constructor, Len(st.heap))

\* bind(identifier).to(implementation), in transient scope until a scope is applied
BindTo(dict, id, cls, scope) ==
  [dict EXCEPT ![id] = Append(@, [type |-> "Instance", implementationType |-> cls,
                                  scope |-> scope, activated |-> FALSE,
                                  cache |-> Undefined])]

\* bind(identifier).toConstantValue(value)
BindToConstantValue(dict, id, value) ==
  [dict EXCEPT ![id] = Append(@, [type |-> "ConstantValue", implementationType |-> "none",
                                  scope |-> "singleton", activated |-> FALSE,
                                  cache |-> value])]

IsBound(dict, id) == Len(dict[id]) > 0

\* super.get(serviceIdentifier)
InversifyGet(st, id) ==
  LET list == st.dict[id]
  IN IF Len(list) = 0 THEN Thrown(st, "not-registered")
     ELSE IF Len(list) > 1 THEN Thrown(st, "ambiguous")
     ELSE LET binding == list[1]
          IN IF binding.type = "ConstantValue" THEN Returned(st, binding.cache)
             ELSE IF binding.scope = "singleton" /\ binding.activated
             THEN Returned(st, binding.cache)
             ELSE LET made == Allocate(st, binding.implementationType)
                      kept == IF binding.scope = "singleton"
                              THEN [made EXCEPT !.dict[id] =
                                      <<[binding EXCEPT !.activated = TRUE,
                                                        !.cache = NewestObject(made)]>>]
                              ELSE made
                  IN Returned(kept, NewestObject(made))

\* getCurrentContext(): the stub
GetCurrentContext == Null

\* Object.defineProperty(target, key, {value, writable: false, configurable: false})
\* throws a TypeError when the property is there with another value
DefinePropertyThrows(st, target, key, value) ==
  /\ st.heap[target.id].props[key] # Absent
  /\ st.heap[target.id].props[key] # value

DefineProperty(st, target, key, value) ==
  [st EXCEPT !.heap[target.id].props[key] = value]

(***************************************************************************)
(* Container.get, PropertyInjectionResolver.resolveProperties and          *)
(* Container.lazyLoad call one another.  st is the store they work on:     *)
(* the binding dictionary, the heap, lazyServices, the count of factory    *)
(* invocations and the contextual manager's cache and call counts.  What a call has written stays written *)
(* when it throws.  depth is the room left on the call stack; factoryOut   *)
(* says whether a lazy factory, if invoked, returns or throws.             *)
(***************************************************************************)
RECURSIVE ContainerGetOn(_, _, _, _)
RECURSIVE ResolveProperties(_, _, _, _, _)
RECURSIVE LazyLoadOn(_, _, _, _)

\* Container.resolveContextual
ContainerResolveContextual(st, id) ==
  LET context == GetCurrentContext
  IN IF ~Truthy(context)
     THEN [out |-> "ok", value |-> Null, cache |-> st.cache, calls |-> st.calls,
           invoked |-> FALSE]
     ELSE ResolveContextualResult(bindings, st.cache, st.calls, context, Str(id), "ok")

\* get, behind propertyResolver.resolveProperties(instance, this)
GetInjected(instance, injected) ==
  IF injected.out = "ok" THEN Returned(injected.st, instance.value) ELSE injected

\* get, behind super.get(serviceIdentifier)
GetInstance(instance, depth, factoryOut) ==
  IF instance.out = "ok" /\ instance.value.type = "object"
  THEN GetInjected(instance,
                   ResolveProperties(instance.st, instance.value,
                                     PropertyInjections(instance.value.text), depth,
                                     factoryOut))
  ELSE instance

\* get, behind this.resolveContextual(serviceIdentifier)
GetContextual(contextual, st, id, depth, factoryOut) ==
  IF contextual.out = "throw" THEN Thrown(st, "contextual")
  ELSE IF contextual.value # Null
  THEN Returned([st EXCEPT !.cache = contextual.cache, !.calls = contextual.calls],
                contextual.value)
  ELSE GetInstance(InversifyGet(st, id), depth, factoryOut)

\* the catch of get
GetCatch(tried, id, depth, factoryOut) ==
  IF tried.out = "ok" THEN tried
  ELSE IF id \in tried.st.lazy THEN LazyLoadOn(tried.st, id, depth - 1, factoryOut)
  ELSE tried

ContainerGetOn(st, id, depth, factoryOut) ==
  IF depth = 0 THEN Thrown(st, "stack")
  ELSE GetCatch(GetContextual(ContainerResolveContextual(st, id), st, id, depth,
                              factoryOut),
                id, depth, factoryOut)

\* resolveProperties, behind the container.get of one injection
InjectService(service, target, injections, depth, factoryOut) ==
  IF /\ service.out = "ok"
     /\ ~DefinePropertyThrows(service.st, target, Head(injections).propertyKey,
                              service.value)
  THEN ResolveProperties(DefineProperty(service.st, target, Head(injections).propertyKey,
                                        service.value),
                         target, Tail(injections), depth, factoryOut)
  ELSE IF ~Head(injections).optional THEN Thrown(service.st, "injection")
  ELSE IF DefinePropertyThrows(service.st, target, Head(injections).propertyKey, Undefined)
  THEN Thrown(service.st, "type-error")
  ELSE ResolveProperties(DefineProperty(service.st, target, Head(injections).propertyKey,
                                        Undefined),
                         target, Tail(injections), depth, factoryOut)

\* the loop of resolveProperties over the injections still to do
ResolveProperties(st, target, injections, depth, factoryOut) ==
  IF injections = <<>> THEN Returned(st, target)
  ELSE InjectService(ContainerGetOn(st, Head(injections).serviceIdentifier, depth - 1,
                                    factoryOut),
                     target, injections, depth, factoryOut)

\* lazyLoad, behind the factory's return: bind the instance, drop the factory
LazyLoaded(made, id) ==
  Returned([made EXCEPT !.dict = BindToConstantValue(@, id, NewestObject(made)),
                        !.lazy = @ \ {id}],
           NewestObject(made))

\* the stored factory and the one handed in are one function here, so the branch
\* that finds a stored factory and the one that stores it do the same
LazyLoadOn(st, id, depth, factoryOut) ==
  IF IsBound(st.dict, id) THEN ContainerGetOn(st, id, depth, factoryOut)
  ELSE IF factoryOut = "throw"
  THEN Thrown([st EXCEPT !.lazy = @ \cup {id}, !.invoked[id] = @ + 1], "factory")
  ELSE LazyLoaded(Allocate([st EXCEPT !.lazy = @ \cup {id}, !.invoked[id] = @ + 1],
                           "Lazy"),
                  id)

Store ==
  [dict |-> bindingDictionary, heap |-> heap, lazy |-> lazyServices,
   invoked |-> factoryCalls, cache |-> resolutionCache, calls |-> giveCalls]

\* the store a call leaves becomes the state; lastGet takes what a get did
Commit(r, id, factoryOut) ==
  /\ factoryOut = "throw" => r.error = "factory"
  /\ Len(r.st.heap) <= MaxObjects
  /\ \A i \in Identifiers : r.st.invoked[i] <= MaxFactoryCalls
  /\ factoryCalls' = r.st.invoked
  /\ bindingDictionary' = r.st.dict
  /\ heap' = r.st.heap
  /\ lazyServices' = r.st.lazy
  /\ resolutionCache' = r.st.cache
  /\ giveCalls' = r.st.calls
  /\ lastGet' = IF id = "none" THEN [id |-> "none", out |-> "none", value |-> Undefined,
                                     error |-> "none"]
                ELSE [id |-> id, out |-> r.out, value |-> r.value, error |-> r.error]

NoGet == [id |-> "none", out |-> "none", value |-> Undefined, error |-> "none"]

\* Variant of ContainerRegister whose switch falls through from 'transient' to
\* 'singleton'.
ContainerRegisterFallThrough(id, implementation, scope) ==
  /\ nContainerRegister < MaxContainerRegisterCalls
  /\ nContainerRegister' = nContainerRegister + 1
  /\ bindingDictionary' =
       IF implementation.type = "function"
       THEN BindTo(bindingDictionary, id, implementation.text,
                   IF scope = "request" THEN "request" ELSE "singleton")
       ELSE BindToConstantValue(bindingDictionary, id, implementation)
  /\ askedScopes' = [askedScopes EXCEPT ![id] = Append(@, scope)]
  /\ lastGet' = NoGet
  /\ UNCHANGED <<heap, lazyServices, factoryCalls, contextualVars, lifecycleVars,
                 utilityVars>>

\* register(identifier, implementation, scope); singleton() and transient() are
\* register with the scope filled in
ContainerRegister(id, implementation, scope) ==
  /\ nContainerRegister < MaxContainerRegisterCalls
  /\ nContainerRegister' = nContainerRegister + 1
  /\ bindingDictionary' =
       IF implementation.type = "function"
       THEN BindTo(bindingDictionary, id, implementation.text,
                   CASE scope = "singleton" -> "singleton"
                     [] scope = "request" -> "request"
                     [] OTHER -> "transient")
       ELSE BindToConstantValue(bindingDictionary, id, implementation)
  /\ askedScopes' = [askedScopes EXCEPT ![id] = Append(@, scope)]
  /\ lastGet' = NoGet
  /\ UNCHANGED <<heap, lazyServices, factoryCalls, contextualVars, lifecycleVars,
                 utilityVars>>

\* get(serviceIdentifier), called on behalf of caller; get has no way to know it
ContainerGet(id, caller, factoryOut) ==
  /\ Commit(ContainerGetOn(Store, id, StackDepth, factoryOut), id, factoryOut)
  /\ UNCHANGED <<nContainerRegister, askedScopes, bindings, resolved, bindingOutcome,
                 nRegisterBinding, lifecycleVars, utilityVars>>

ContainerLazyLoad(id, factoryOut) ==
  /\ Commit(LazyLoadOn(Store, id, StackDepth, factoryOut), "none", factoryOut)
  /\ UNCHANGED <<nContainerRegister, askedScopes, bindings, resolved, bindingOutcome,
                 nRegisterBinding, lifecycleVars, utilityVars>>

\* when(when).needs(identifier).give(implementation)
ContainerWhenNeedsGive(when, id, implementation) ==
  /\ RegisterBinding(ContextualBinding(when, Str(id), implementation, Str("transient")))
  /\ lastGet' = NoGet
  /\ UNCHANGED <<bindingDictionary, heap, lazyServices, factoryCalls, askedScopes,
                 nContainerRegister,
                 lifecycleVars, utilityVars>>

\* canResolve(identifier); `this` is the container, an object of class Container
ContainerCanResolve(id) ==
  \/ IsBound(bindingDictionary, id)
  \/ id \in lazyServices
  \/ HasContextualBinding(bindings, JsValue("object", "Container", 0), Str(id))

ContainerInit ==
  /\ bindingDictionary = [id \in Identifiers |-> <<>>]
  /\ heap = <<>>
  /\ lazyServices = {}
  /\ factoryCalls = [id \in Identifiers |-> 0]
  /\ lastGet = NoGet
  /\ askedScopes = [id \in Identifiers |-> <<>>]
  /\ nContainerRegister = 0

ContainerWhens == {Str("Report"), Fn("Container")}

\* the identifiers lazyLoad is called with
LazyIdentifiers == {"Y"}

ContainerNext ==
  \/ \E id \in Identifiers, implementation \in Implementations, scope \in ContainerScopes :
       Bindable(id, implementation) /\ ContainerRegister(id, implementation, scope)
  \/ \E id \in Identifiers, caller \in Callers, factoryOut \in Outcomes :
       ContainerGet(id, caller, factoryOut)
  \/ \E id \in LazyIdentifiers, factoryOut \in Outcomes :
       ContainerLazyLoad(id, factoryOut)
  \/ \E when \in ContainerWhens : ContainerWhenNeedsGive(when, "X", Str("csv"))

(***************************************************************************)
(* The other ContextualBindingManager of the sources, which keeps no       *)
(* cache, validates nothing and reads no scope.  It is modelled on the     *)
(* same bindings Map; the builder's give() hands it {when, needs, give}.   *)
(***************************************************************************)
BasicGives == {Str("csv"), Str("pdf")} \cup Factories

BasicRegisterBinding(binding) ==
  LET contextKey == GetContextKey(binding.when)
  IN /\ nRegisterBinding < MaxBindingCalls
     /\ nRegisterBinding' = nRegisterBinding + 1
     /\ bindings' = MapPut(bindings, contextKey,
                           Append(BindingsGet(bindings, contextKey), binding))
     /\ UNCHANGED <<resolutionCache, giveCalls, resolved, bindingOutcome>>
     /\ UNCHANGED <<lifecycleVars, utilityVars, containerVars>>

\* what resolveContextual returns on the bindings bs
BasicResolveContextualResult(bs, calls, context, serviceIdentifier, giveOut) ==
  LET match == FirstMatch(BindingsGet(bs, GetContextKey(context)), serviceIdentifier)
  IN IF match = <<>>
     THEN [out |-> "ok", value |-> Null, calls |-> calls, invoked |-> FALSE]
     ELSE IF match[1].give.type # "function"
     THEN [out |-> "ok", value |-> match[1].give, calls |-> calls, invoked |-> FALSE]
     ELSE IF giveOut = "throw"
     THEN [out |-> "throw", value |-> Undefined,
           calls |-> [calls EXCEPT ![match[1].give] = @ + 1], invoked |-> TRUE]
     ELSE [out |-> "ok", value |-> Made(match[1].give, calls[match[1].give] + 1),
           calls |-> [calls EXCEPT ![match[1].give] = @ + 1], invoked |-> TRUE]

BasicResolveContextual(context, serviceIdentifier, giveOut) ==
  LET r == BasicResolveContextualResult(bindings, giveCalls, context, serviceIdentifier,
                                        giveOut)
  IN /\ giveOut = "throw" => r.out = "throw"
     /\ \A f \in Factories : r.calls[f] <= MaxGiveCalls
     /\ resolved' = [context |-> context, needs |-> serviceIdentifier, out |-> r.out,
                     value |-> r.value]
     /\ giveCalls' = r.calls
     /\ UNCHANGED <<bindings, resolutionCache, bindingOutcome, nRegisterBinding>>
     /\ UNCHANGED <<lifecycleVars, utilityVars, containerVars>>

BasicClear ==
  /\ bindings # <<>>
  /\ bindings' = <<>>
  /\ UNCHANGED <<resolutionCache, giveCalls, resolved, bindingOutcome, nRegisterBinding>>
  /\ UNCHANGED <<lifecycleVars, utilityVars, containerVars>>

BasicNext ==
  \/ \E when \in Contexts, needs \in ContextualIdentifiers, give \in BasicGives :
       BasicRegisterBinding(ContextualBinding(when, needs, give, Undefined))
  \/ \E context \in Contexts, serviceIdentifier \in ContextualIdentifiers,
        giveOut \in Outcomes :
       BasicResolveContextual(context, serviceIdentifier, giveOut)
  \/ BasicClear

\* the Application, its registry and the Container as constructed
ApplicationInit ==
  /\ state = "created"
  /\ providers = <<>>
  /\ deferredProviders = <<>>
  /\ terminableProviders = <<>>
  /\ providerConfigs = <<>>
  /\ booted = FALSE
  /\ terminating = FALSE
  /\ bound = {}
  /\ loaded = [p \in Providers |-> FALSE]
  /\ bootPc = "idle"
  /\ sortedProviders = <<>>
  /\ bootIdx = 0
  /\ bootTasks = {}
  /\ termPc = "idle"
  /\ termWaiting = 0
  /\ termTasks = [p \in Providers |-> "none"]
  /\ registerCalls = [p \in Providers |-> 0]
  /\ bootCalls = [p \in Providers |-> 0]
  /\ terminateCalls = [p \in Providers |-> 0]
  /\ bootLog = <<>>
  /\ bootFailures = {}
  /\ getResult = [id \in Identifiers |-> "none"]
  /\ nRegister = 0

ProgramInit == ApplicationInit /\ ContextualInit /\ ContainerInit

(***************************************************************************)
(* Property injection declarations (decorators/inject.decorator.ts) and    *)
(* PropertyInjectionResolver (utilities/property-injection-resolver.ts).   *)
(* reflect-metadata keeps, per class, the object defined under             *)
(* INJECT_PROPERTY; Reflect.getMetadata looks it up along the prototype    *)
(* chain.  A metadata object is the sequence of its entries in insertion   *)
(* order; metadataObjects holds the objects, ownMetadata the index of the  *)
(* object defined on a class (0: none).                                    *)
(***************************************************************************)
MaxInjectCalls == 2

\* class Derived extends Base
DeclaringClasses == {"Base", "Derived"}

MemberKeys == {"a", "b"}

InjectedIdentifiers == {"Y"}

\* Object.getPrototypeOf(cls), "none" past the last class
GetPrototypeOf(cls) == IF cls = "Derived" THEN "Base" ELSE "none"

\* IPropertyInjection without its propertyKey
InjectionMetadata(serviceIdentifier, optional, factory, named, tagged) ==
  [serviceIdentifier |-> serviceIdentifier, optional |-> optional, factory |-> factory,
   named |-> named, tagged |-> tagged]

\* an array of n tags; no array at all is Undefined
Tags(n) == JsValue("array", "tag", n)

\* {propertyKey, ...metadata}
Injection(propertyKey, metadata) ==
  [propertyKey |-> propertyKey, serviceIdentifier |-> metadata.serviceIdentifier,
   optional |-> metadata.optional, factory |-> metadata.factory, named |-> metadata.named,
   tagged |-> metadata.tagged]

Entry(propertyKey, metadata) == [propertyKey |-> propertyKey, metadata |-> metadata]

RECURSIVE ReflectGetMetadata(_, _)
\* Reflect.getMetadata(METADATA_KEYS.INJECT_PROPERTY, cls): the index of the object
\* found on cls or on the nearest ancestor that has one, 0 when there is none
ReflectGetMetadata(own, cls) ==
  IF cls = "none" THEN 0
  ELSE IF own[cls] # 0 THEN own[cls]
  ELSE ReflectGetMetadata(own, GetPrototypeOf(cls))

\* the position of propertyKey among the entries, 0 when it is not there
EntryIndex(entries, propertyKey) ==
  IF \E i \in 1..Len(entries) : entries[i].propertyKey = propertyKey
  THEN CHOOSE i \in 1..Len(entries) : entries[i].propertyKey = propertyKey
  ELSE 0

\* existingMetadata[propertyKey] = metadata
SetEntry(entries, propertyKey, metadata) ==
  IF EntryIndex(entries, propertyKey) > 0
  THEN [entries EXCEPT ![EntryIndex(entries, propertyKey)] = Entry(propertyKey, metadata)]
  ELSE Append(entries, Entry(propertyKey, metadata))

\* the body the decorators Inject and InjectOptional share for a property of cls
DecorateProperty(cls, propertyKey, metadata) ==
  LET existingMetadata == ReflectGetMetadata(ownMetadata, cls)
  IN /\ nInject < MaxInjectCalls
     /\ nInject' = nInject + 1
     /\ IF existingMetadata = 0
        THEN /\ metadataObjects' = Append(metadataObjects, <<Entry(propertyKey, metadata)>>)
             /\ ownMetadata' = [ownMetadata EXCEPT ![cls] = Len(metadataObjects) + 1]
        ELSE /\ metadataObjects' =
                  [metadataObjects EXCEPT ![existingMetadata] =
                     SetEntry(@, propertyKey, metadata)]
             /\ ownMetadata' = [ownMetadata EXCEPT ![cls] = existingMetadata]
     /\ declared' = [declared EXCEPT ![cls] = SetEntry(@, propertyKey, metadata)]

\* @Inject(serviceIdentifier) on the property propertyKey of class cls
Inject(cls, propertyKey, serviceIdentifier) ==
  DecorateProperty(cls, propertyKey,
                   InjectionMetadata(serviceIdentifier, FALSE, Undefined, Undefined,
                                     Undefined))

\* @InjectOptional(serviceIdentifier) on the property propertyKey of class cls
InjectOptional(cls, propertyKey, serviceIdentifier) ==
  DecorateProperty(cls, propertyKey,
                   InjectionMetadata(serviceIdentifier, TRUE, Undefined, Undefined,
                                     Undefined))

\* the entries of the object Reflect.getMetadata finds for cls, {} when none
PropertyMetadata(objects, own, cls) ==
  IF ReflectGetMetadata(own, cls) = 0 THEN <<>>
  ELSE objects[ReflectGetMetadata(own, cls)]

RECURSIVE PushNew(_, _)
\* the for loop over Object.entries(propertyMetadata): push what injections lacks
PushNew(injections, entries) ==
  IF entries = <<>> THEN injections
  ELSE IF \E i \in 1..Len(injections) :
            injections[i].propertyKey = Head(entries).propertyKey
  THEN PushNew(injections, Tail(entries))
  ELSE PushNew(Append(injections,
                      Injection(Head(entries).propertyKey, Head(entries).metadata)),
               Tail(entries))

RECURSIVE WalkPrototypeChain(_, _, _, _)
\* the while loop of getPropertyInjections
WalkPrototypeChain(objects, own, currentTarget, injections) ==
  IF currentTarget = "none" THEN injections
  ELSE WalkPrototypeChain(objects, own, GetPrototypeOf(currentTarget),
                          PushNew(injections,
                                  PropertyMetadata(objects, own, currentTarget)))

\* an entry of the injectionCache WeakMap
NotCached == [cached |-> FALSE, injections |-> <<>>]

Cached(injections) == [cached |-> TRUE, injections |-> injections]

\* what getPropertyInjections(target) returns on the cache and metadata given
GetPropertyInjectionsOn(cache, objects, own, target) ==
  IF cache[target].cached THEN cache[target].injections
  ELSE WalkPrototypeChain(objects, own, target, <<>>)

\* getPropertyInjections(target)
GetPropertyInjections(target) ==
  /\ lastInjections' =
       [target |-> target,
        injections |-> GetPropertyInjectionsOn(injectionCache, metadataObjects,
                                               ownMetadata, target)]
  /\ injectionCache' =
       [injectionCache EXCEPT ![target] =
          Cached(GetPropertyInjectionsOn(injectionCache, metadataObjects, ownMetadata,
                                         target))]

\* clearCache(target?): target is a class or undefined
ClearCache(target) ==
  injectionCache' =
    IF target # "undefined"
    THEN [injectionCache EXCEPT ![target] = NotCached]
    ELSE [cls \in DeclaringClasses |-> NotCached]

(***************************************************************************)
(* resolveProperties(target, container).  The container is any object with *)
(* get, getNamed and getTagged; what its lookups and the declared factory  *)
(* answer in one call is outs: per way 0 when it throws, else the number   *)
(* of the object it returns.  st.heap holds the target.                    *)
(***************************************************************************)
Ways == {"factory", "getNamed", "getTagged", "get"}

\* Variant of WayOf that looks at the tags before the name.
WayOfTaggedFirst(injection) ==
  IF Truthy(injection.factory) THEN "factory"
  ELSE IF injection.tagged # Undefined /\ injection.tagged.id > 0 THEN "getTagged"
  ELSE IF injection.named # Undefined THEN "getNamed"
  ELSE "get"

\* the call resolveProperties makes for an injection
WayOf(injection) ==
  IF Truthy(injection.factory) THEN "factory"
  ELSE IF injection.named # Undefined THEN "getNamed"
  ELSE IF injection.tagged # Undefined /\ injection.tagged.id > 0 THEN "getTagged"
  ELSE "get"

NoError == [name |-> "none", propertyKey |-> "none", serviceIdentifier |-> "none",
            class |-> "none"]

\* new Error(`Failed to inject property '..' with service '..' in class '..': ..`)
InjectionError(injection, target) ==
  [name |-> "Error", propertyKey |-> injection.propertyKey,
   serviceIdentifier |-> injection.serviceIdentifier, class |-> target.text]

\* the TypeError of Object.defineProperty: Cannot redefine property
RedefineError(injection) ==
  [name |-> "TypeError", propertyKey |-> injection.propertyKey,
   serviceIdentifier |-> "none", class |-> "none"]

Resolution(st, out, error, lookups) ==
  [st |-> st, out |-> out, error |-> error, lookups |-> lookups]

Lookup(injection) == [propertyKey |-> injection.propertyKey, way |-> WayOf(injection)]

RECURSIVE ResolveEach(_, _, _, _, _)
\* Variant of InjectLookedUp that treats every declaration as optional.
InjectLookedUpLenient(st, target, injections, outs, lookups, way) ==
  IF /\ outs[way] # 0
     /\ ~DefinePropertyThrows(st, target, Head(injections).propertyKey,
                              Made(Fn(way), outs[way]))
  THEN ResolveEach(DefineProperty(st, target, Head(injections).propertyKey,
                                  Made(Fn(way), outs[way])),
                   target, Tail(injections), outs, lookups)
  ELSE IF DefinePropertyThrows(st, target, Head(injections).propertyKey, Undefined)
  THEN Resolution(st, "throw", RedefineError(Head(injections)), lookups)
  ELSE ResolveEach(DefineProperty(st, target, Head(injections).propertyKey, Undefined),
                   target, Tail(injections), outs, lookups)

\* one turn of the for loop: the try with the service looked up, and the catch
InjectLookedUp(st, target, injections, outs, lookups, way) ==
  IF /\ outs[way] # 0
     /\ ~DefinePropertyThrows(st, target, Head(injections).propertyKey,
                              Made(Fn(way), outs[way]))
  THEN ResolveEach(DefineProperty(st, target, Head(injections).propertyKey,
                                  Made(Fn(way), outs[way])),
                   target, Tail(injections), outs, lookups)
  ELSE IF ~Head(injections).optional
  THEN Resolution(st, "throw", InjectionError(Head(injections), target), lookups)
  ELSE IF DefinePropertyThrows(st, target, Head(injections).propertyKey, Undefined)
  THEN Resolution(st, "throw", RedefineError(Head(injections)), lookups)
  ELSE ResolveEach(DefineProperty(st, target, Head(injections).propertyKey, Undefined),
                   target, Tail(injections), outs, lookups)

\* the for loop over the injections still to do
ResolveEach(st, target, injections, outs, lookups) ==
  IF injections = <<>> THEN Resolution(st, "ok", NoError, lookups)
  ELSE InjectLookedUp(st, target, injections, outs,
                      Append(lookups, Lookup(Head(injections))),
                      WayOf(Head(injections)))

\* resolveProperties(target, container) on the targets, cache and metadata given
ResolvePropertiesOn(heapOfTargets, cache, objects, own, target, outs) ==
  IF target.type # "object" THEN Resolution([heap |-> heapOfTargets], "ok", NoError, <<>>)
  ELSE ResolveEach([heap |-> heapOfTargets], target,
                   GetPropertyInjectionsOn(cache, objects, own, target.text), outs, <<>>)

TheTarget == JsValue("object", "Derived", 1)

\* what a resolveProperties call leaves becomes the state
ResolverCommit(r, target) ==
  /\ lastResolve' = [out |-> r.out, error |-> r.error, lookups |-> r.lookups]
  /\ targets' = r.st.heap
  /\ injectionCache' =
       IF target.type # "object" THEN injectionCache
       ELSE [injectionCache EXCEPT ![target.text] =
               Cached(GetPropertyInjectionsOn(injectionCache, metadataObjects,
                                              ownMetadata, target.text))]

\* resolveProperties(target, container)
ResolverResolveProperties(target, outs) ==
  /\ ResolverCommit(ResolvePropertiesOn(targets, injectionCache, metadataObjects,
                                        ownMetadata, target, outs),
                    target)
  /\ UNCHANGED <<metadataObjects, ownMetadata, declared, lastInjections, nInject>>
  /\ UNCHANGED besidesInjection

NoResolve == [out |-> "none", error |-> NoError, lookups |-> <<>>]

NoInjections == [target |-> "none", injections |-> <<>>]

\* no class is decorated, nothing is cached, one object of class Derived is there
InjectionInit ==
  /\ metadataObjects = <<>>
  /\ ownMetadata = [cls \in DeclaringClasses |-> 0]
  /\ declared = [cls \in DeclaringClasses |-> <<>>]
  /\ injectionCache = [cls \in DeclaringClasses |-> NotCached]
  /\ lastInjections = NoInjections
  /\ nInject = 0
  /\ targets = <<[constructor |-> "Derived", props |-> [k \in MemberKeys |-> Absent]]>>
  /\ lastResolve = NoResolve

\* the decorators applied to the classes, and the resolver's reading of them
DecoratorInject(cls, propertyKey, serviceIdentifier) ==
  /\ Inject(cls, propertyKey, serviceIdentifier)
  /\ UNCHANGED <<injectionCache, lastInjections, targets, lastResolve>>
  /\ UNCHANGED besidesInjection

DecoratorInjectOptional(cls, propertyKey, serviceIdentifier) ==
  /\ InjectOptional(cls, propertyKey, serviceIdentifier)
  /\ UNCHANGED <<injectionCache, lastInjections, targets, lastResolve>>
  /\ UNCHANGED besidesInjection

ResolverGetPropertyInjections(target) ==
  /\ GetPropertyInjections(target)
  /\ UNCHANGED <<metadataObjects, ownMetadata, declared, nInject, targets, lastResolve>>
  /\ UNCHANGED besidesInjection

ResolverClearCache(target) ==
  /\ ClearCache(target)
  /\ UNCHANGED <<metadataObjects, ownMetadata, declared, lastInjections, nInject, targets,
                 lastResolve>>
  /\ UNCHANGED besidesInjection

InjectionNext ==
  \/ \E cls \in DeclaringClasses, propertyKey \in MemberKeys,
        serviceIdentifier \in InjectedIdentifiers :
       DecoratorInject(cls, propertyKey, serviceIdentifier)
  \/ \E cls \in DeclaringClasses, propertyKey \in MemberKeys,
        serviceIdentifier \in InjectedIdentifiers :
       DecoratorInjectOptional(cls, propertyKey, serviceIdentifier)
  \/ \E target \in DeclaringClasses : ResolverGetPropertyInjections(target)
  \/ \E target \in DeclaringClasses \cup {"undefined"} : ResolverClearCache(target)

(***************************************************************************)
(* The resolver on a class whose INJECT_PROPERTY metadata was defined      *)
(* before: the declarations are drawn, with and without factory, named and *)
(* tagged.                                                                 *)
(***************************************************************************)
DeclaredMetadata ==
  {InjectionMetadata("Y", optional, factory, named, tagged) :
     optional \in BOOLEAN, factory \in {Undefined, Fn("make")},
     named \in {Undefined, Str("n")}, tagged \in {Undefined, Tags(0), Tags(1)}}

DeclaredEntries ==
  {<<>>} \cup {<<Entry("a", m)>> : m \in DeclaredMetadata}
         \cup {<<Entry("a", m), Entry("b", n)>> : m \in DeclaredMetadata,
                                                 n \in DeclaredMetadata}

DeclaredInit ==
  /\ \E entries \in DeclaredEntries :
       /\ metadataObjects = <<entries>>
       /\ declared = [cls \in DeclaringClasses |->
                        IF cls = "Derived" THEN entries ELSE <<>>]
  /\ ownMetadata = [cls \in DeclaringClasses |-> IF cls = "Derived" THEN 1 ELSE 0]
  /\ injectionCache = [cls \in DeclaringClasses |-> NotCached]
  /\ lastInjections = NoInjections
  /\ nInject = 0
  /\ targets = <<[constructor |-> "Derived", props |-> [k \in MemberKeys |-> Absent]]>>
  /\ lastResolve = NoResolve

ResolverNext ==
  \E outs \in [Ways -> 0..2] : ResolverResolveProperties(TheTarget, outs)

(***************************************************************************)
(* MetadataStorage.  The class is defined twice: in                        *)
(* packages/metadata/src/utilities/metadata-storage.ts, and in part_000    *)
(* with statistics, guards on a falsy target and removal of emptied maps.  *)
(* storageClass says which of the two is built.  A JavaScript Map is the   *)
(* sequence of its entries in insertion order; a WeakMap is a function     *)
(* over the objects that can be its keys.                                  *)
(***************************************************************************)
MaxStorageCalls == 3

StorageClasses == {"metadata-storage.ts", "part_000"}

StorageEntities == {JsValue("object", "E", 1)}

\* the targets handed in: the entities, and null
StorageTargets == StorageEntities \cup {Null}

MetadataKeys == {Str("k1"), Str("k2")}

MetadataValues == {Str("v1"), Str("v2")}

\* propertyKey: a name, or one of two symbols of the same description
NamedPropertyKeys == {Str("m")}

SymbolPropertyKeys == {JsValue("symbol", "m", 1), JsValue("symbol", "m", 2)}

StoragePropertyKeys == NamedPropertyKeys \cup SymbolPropertyKeys

\* the optional propertyKey argument, as the calls of Metadata give it
OptionalPropertyKeys == NamedPropertyKeys \cup {Undefined}

Bool(b) == JsValue("boolean", IF b THEN "true" ELSE "false", 0)

\* the undefined a WeakMap or a Map answers for a key it lacks
NoMap == [defined |-> FALSE, entries |-> <<>>]

NoProperties == [defined |-> FALSE, maps |-> [p \in StoragePropertyKeys |-> NoMap]]

EntriesIndex(entries, key) ==
  IF \E i \in 1..Len(entries) : entries[i].key = key
  THEN CHOOSE i \in 1..Len(entries) : entries[i].key = key
  ELSE 0

\* Map.prototype.has, get, set, delete, keys, size
EntriesHas(entries, key) == EntriesIndex(entries, key) > 0

EntriesGet(entries, key) ==
  IF EntriesHas(entries, key) THEN entries[EntriesIndex(entries, key)].value ELSE Undefined

EntriesSetKeepingFirst(entries, key, value) ==
  IF EntriesHas(entries, key) THEN entries
  ELSE Append(entries, [key |-> key, value |-> value])

EntriesSet(entries, key, value) ==
  IF EntriesHas(entries, key)
  THEN [entries EXCEPT ![EntriesIndex(entries, key)].value = value]
  ELSE Append(entries, [key |-> key, value |-> value])

EntriesDelete(entries, key) == SelectSeq(entries, LAMBDA e : e.key # key)

EntriesKeys(entries) == [i \in 1..Len(entries) |-> entries[i].key]

PropertiesSize(properties) ==
  Cardinality({p \in StoragePropertyKeys : properties.maps[p].defined})

\* WeakMap.prototype.get: undefined for a key that is no object
WeakMapGet(weakMap, none, target) ==
  IF target \in DOMAIN weakMap THEN weakMap[target] ELSE none

NoStats ==
  [totalTargets |-> 0, totalProperties |-> 0, totalMetadataEntries |-> 0,
   set |-> 0, get |-> 0, delete |-> 0, clear |-> 0]

Storage(cls, targetMd, propertyMd, st) ==
  [class |-> cls, targetMetadata |-> targetMd, targetPropertyMetadata |-> propertyMd,
   stats |-> st]

\* what a call did: the storage after it, return or throw, the value or keys returned
StorageCall(op, s, out, value, keys) ==
  [op |-> op, storage |-> s, out |-> out, value |-> value, keys |-> keys]

StorageReturned(op, s, value) == StorageCall(op, s, "return", value, <<>>)

StorageReturnedKeys(op, s, keys) == StorageCall(op, s, "return", Undefined, keys)

StorageThrew(op, s, name) == StorageCall(op, s, "throw", Str(name), <<>>)

WithStats(s) == s.class = "part_000"

\* this.stats.<field> += n, in the definition that keeps statistics
Count(s, field, n) ==
  IF WithStats(s) THEN [s EXCEPT !.stats[field] = @ + n] ELSE s

SetTargetMetadata(s, metadataKey, metadataValue, target) ==
  LET metadata == WeakMapGet(s.targetMetadata, NoMap, target) IN
  IF WithStats(s) /\ ~Truthy(target) THEN StorageThrew("set", s, "Error")
  ELSE IF target \notin StorageEntities THEN StorageThrew("set", s, "TypeError")
  ELSE StorageReturned("set",
         [Count(s, "totalTargets", IF metadata.defined THEN 0 ELSE 1)
            EXCEPT !.targetMetadata[target] =
              [defined |-> TRUE,
               entries |-> EntriesSet(metadata.entries, metadataKey, metadataValue)]],
         Undefined)

GetTargetMetadata(s, metadataKey, target) ==
  LET metadata == WeakMapGet(s.targetMetadata, NoMap, target) IN
  IF ~metadata.defined THEN StorageReturned("get", s, Undefined)
  ELSE StorageReturned("get", s, EntriesGet(metadata.entries, metadataKey))

HasTargetMetadata(s, metadataKey, target) ==
  LET metadata == WeakMapGet(s.targetMetadata, NoMap, target) IN
  IF ~metadata.defined THEN StorageReturned("has", s, Bool(FALSE))
  ELSE StorageReturned("has", s, Bool(EntriesHas(metadata.entries, metadataKey)))

DeleteTargetMetadataAlways(s, metadataKey, target) ==
  StorageReturned("delete", s, Bool(TRUE))

DeleteTargetMetadata(s, metadataKey, target) ==
  LET metadata == WeakMapGet(s.targetMetadata, NoMap, target)
      left == EntriesDelete(metadata.entries, metadataKey)
  IN
  IF ~metadata.defined THEN StorageReturned("delete", s, Bool(FALSE))
  ELSE StorageReturned("delete",
         IF WithStats(s) /\ left = <<>>
         THEN [Count(s, "totalTargets", -1) EXCEPT !.targetMetadata[target] = NoMap]
         ELSE [s EXCEPT !.targetMetadata[target].entries = left],
         Bool(EntriesHas(metadata.entries, metadataKey)))

GetTargetMetadataKeys(s, target) ==
  LET metadata == WeakMapGet(s.targetMetadata, NoMap, target) IN
  IF ~metadata.defined THEN StorageReturnedKeys("getKeys", s, <<>>)
  ELSE StorageReturnedKeys("getKeys", s, EntriesKeys(metadata.entries))

ClearTargetMetadataAndProperties(s, target) ==
  IF target \notin StorageEntities THEN StorageReturned("clear", s, Undefined)
  ELSE StorageReturned("clear",
         [s EXCEPT !.targetMetadata[target] = NoMap,
                   !.targetPropertyMetadata[target] = NoProperties],
         Undefined)

ClearTargetMetadata(s, target) ==
  LET metadata == WeakMapGet(s.targetMetadata, NoMap, target) IN
  IF target \notin StorageEntities THEN StorageReturned("clear", s, Undefined)
  ELSE IF WithStats(s) /\ ~metadata.defined THEN StorageReturned("clear", s, Undefined)
  ELSE StorageReturned("clear",
         [Count(Count(s, "totalMetadataEntries", 0 - Len(metadata.entries)),
                "totalTargets", -1)
            EXCEPT !.targetMetadata[target] = NoMap],
         Undefined)

SetPropertyMetadata(s, metadataKey, metadataValue, target, propertyKey) ==
  LET properties == WeakMapGet(s.targetPropertyMetadata, NoProperties, target)
      metadata == properties.maps[propertyKey]
  IN
  IF WithStats(s) /\ ~Truthy(target) THEN StorageThrew("set", s, "Error")
  ELSE IF target \notin StorageEntities THEN StorageThrew("set", s, "TypeError")
  ELSE StorageReturned("set",
         [Count(s, "totalProperties", IF metadata.defined THEN 0 ELSE 1)
            EXCEPT !.targetPropertyMetadata[target] =
              [defined |-> TRUE,
               maps |-> [properties.maps EXCEPT ![propertyKey] =
                 [defined |-> TRUE,
                  entries |-> EntriesSet(metadata.entries, metadataKey,
                                         metadataValue)]]]],
         Undefined)

GetPropertyMetadata(s, metadataKey, target, propertyKey) ==
  LET properties == WeakMapGet(s.targetPropertyMetadata, NoProperties, target)
      metadata == properties.maps[propertyKey]
  IN
  IF ~properties.defined \/ ~metadata.defined THEN StorageReturned("get", s, Undefined)
  ELSE StorageReturned("get", s, EntriesGet(metadata.entries, metadataKey))

HasPropertyMetadata(s, metadataKey, target, propertyKey) ==
  LET properties == WeakMapGet(s.targetPropertyMetadata, NoProperties, target)
      metadata == properties.maps[propertyKey]
  IN
  IF ~properties.defined \/ ~metadata.defined THEN StorageReturned("has", s, Bool(FALSE))
  ELSE StorageReturned("has", s, Bool(EntriesHas(metadata.entries, metadataKey)))

\* properties.delete(propertyKey), and in part_000 the removal of an emptied
\* properties map
DropProperty(s, properties, target, propertyKey) ==
  LET left == [properties EXCEPT !.maps[propertyKey] = NoMap] IN
  [s EXCEPT !.targetPropertyMetadata[target] =
     IF WithStats(s) /\ PropertiesSize(left) = 0 THEN NoProperties ELSE left]

DeletePropertyMetadata(s, metadataKey, target, propertyKey) ==
  LET properties == WeakMapGet(s.targetPropertyMetadata, NoProperties, target)
      metadata == properties.maps[propertyKey]
      left == EntriesDelete(metadata.entries, metadataKey)
  IN
  IF ~properties.defined \/ ~metadata.defined THEN StorageReturned("delete", s, Bool(FALSE))
  ELSE StorageReturned("delete",
         IF WithStats(s) /\ left = <<>>
         THEN DropProperty(Count(s, "totalProperties", -1), properties, target,
                           propertyKey)
         ELSE [s EXCEPT !.targetPropertyMetadata[target].maps[propertyKey].entries =
                 left],
         Bool(EntriesHas(metadata.entries, metadataKey)))

GetPropertyMetadataKeys(s, target, propertyKey) ==
  LET properties == WeakMapGet(s.targetPropertyMetadata, NoProperties, target)
      metadata == properties.maps[propertyKey]
  IN
  IF ~properties.defined \/ ~metadata.defined THEN StorageReturnedKeys("getKeys", s, <<>>)
  ELSE StorageReturnedKeys("getKeys", s, EntriesKeys(metadata.entries))

ClearPropertyMetadata(s, target, propertyKey) ==
  LET properties == WeakMapGet(s.targetPropertyMetadata, NoProperties, target)
      metadata == properties.maps[propertyKey]
  IN
  IF ~properties.defined THEN StorageReturned("clear", s, Undefined)
  ELSE IF WithStats(s) /\ ~metadata.defined THEN StorageReturned("clear", s, Undefined)
  ELSE StorageReturned("clear",
         DropProperty(Count(Count(s, "totalMetadataEntries",
                                  0 - Len(metadata.entries)),
                            "totalProperties", -1),
                      properties, target, propertyKey),
         Undefined)

\* the public methods of MetadataStorage
StorageSet(s, metadataKey, metadataValue, target, propertyKey) ==
  LET counted == Count(s, "set", 1)
      r == IF propertyKey # Undefined
           THEN SetPropertyMetadata(counted, metadataKey, metadataValue, target,
                                    propertyKey)
           ELSE SetTargetMetadata(counted, metadataKey, metadataValue, target)
  IN
  IF r.out = "throw" THEN r
  ELSE StorageReturned("set", Count(r.storage, "totalMetadataEntries", 1), Undefined)

StorageGet(s, metadataKey, target, propertyKey) ==
  IF propertyKey # Undefined
  THEN GetPropertyMetadata(Count(s, "get", 1), metadataKey, target, propertyKey)
  ELSE GetTargetMetadata(Count(s, "get", 1), metadataKey, target)

StorageHas(s, metadataKey, target, propertyKey) ==
  IF propertyKey # Undefined
  THEN HasPropertyMetadata(s, metadataKey, target, propertyKey)
  ELSE HasTargetMetadata(s, metadataKey, target)

StorageDelete(s, metadataKey, target, propertyKey) ==
  LET counted == Count(s, "delete", 1)
      r == IF propertyKey # Undefined
           THEN DeletePropertyMetadata(counted, metadataKey, target, propertyKey)
           ELSE DeleteTargetMetadata(counted, metadataKey, target)
  IN
  IF r.value = Bool(TRUE)
  THEN StorageReturned("delete", Count(r.storage, "totalMetadataEntries", -1), r.value)
  ELSE r

StorageGetKeys(s, target, propertyKey) ==
  IF propertyKey # Undefined
  THEN GetPropertyMetadataKeys(s, target, propertyKey)
  ELSE GetTargetMetadataKeys(s, target)

StorageClear(s, target, propertyKey) ==
  IF propertyKey # Undefined
  THEN ClearPropertyMetadata(Count(s, "clear", 1), target, propertyKey)
  ELSE ClearTargetMetadata(Count(s, "clear", 1), target)

\* the storage the variables hold
TheStorage == Storage(storageClass, targetMetadata, targetPropertyMetadata, stats)

\* a call of the static Metadata class, which hands it to its storage
MetadataCall(r, metadataKey, target, propertyKey) ==
  /\ nStorageCalls < MaxStorageCalls
  /\ nStorageCalls' = nStorageCalls + 1
  /\ targetMetadata' = r.storage.targetMetadata
  /\ targetPropertyMetadata' = r.storage.targetPropertyMetadata
  /\ stats' = r.storage.stats
  /\ lastStorageCall' = [op |-> r.op, out |-> r.out, value |-> r.value,
                         keys |-> r.keys, metadataKey |-> metadataKey,
                         target |-> target, propertyKey |-> propertyKey]
  /\ UNCHANGED storageClass

MetadataDefine(metadataKey, metadataValue, target, propertyKey) ==
  /\ MetadataCall(StorageSet(TheStorage, metadataKey, metadataValue, target,
                             propertyKey),
                  metadataKey, target, propertyKey)
  /\ stored' = IF target \in StorageEntities
               THEN stored \cup {<<target, propertyKey>>}
               ELSE stored
  /\ UNCHANGED besidesStorage

MetadataGet(metadataKey, target, propertyKey) ==
  /\ MetadataCall(StorageGet(TheStorage, metadataKey, target, propertyKey),
                  metadataKey, target, propertyKey)
  /\ UNCHANGED <<stored, besidesStorage>>

MetadataHas(metadataKey, target, propertyKey) ==
  /\ MetadataCall(StorageHas(TheStorage, metadataKey, target, propertyKey),
                  metadataKey, target, propertyKey)
  /\ UNCHANGED <<stored, besidesStorage>>

MetadataDelete(metadataKey, target, propertyKey) ==
  /\ MetadataCall(StorageDelete(TheStorage, metadataKey, target, propertyKey),
                  metadataKey, target, propertyKey)
  /\ UNCHANGED <<stored, besidesStorage>>

MetadataGetKeys(target, propertyKey) ==
  /\ MetadataCall(StorageGetKeys(TheStorage, target, propertyKey),
                  Undefined, target, propertyKey)
  /\ UNCHANGED <<stored, besidesStorage>>

MetadataClear(target, propertyKey) ==
  /\ MetadataCall(StorageClear(TheStorage, target, propertyKey),
                  Undefined, target, propertyKey)
  /\ UNCHANGED <<stored, besidesStorage>>

NoStorageCall ==
  [op |-> "none", out |-> "return", value |-> Undefined, keys |-> <<>>,
   metadataKey |-> Undefined, target |-> Undefined, propertyKey |-> Undefined]

NewStorage(cls) ==
  /\ storageClass = cls
  /\ targetMetadata = [t \in StorageEntities |-> NoMap]
  /\ targetPropertyMetadata = [t \in StorageEntities |-> NoProperties]
  /\ stats = NoStats
  /\ lastStorageCall = NoStorageCall
  /\ stored = {}
  /\ nStorageCalls = 0

StorageInit == NewStorage("metadata-storage.ts")

\* either definition of MetadataStorage, new
EitherStorageInit == \E cls \in StorageClasses : NewStorage(cls)

MetadataNext ==
  \/ \E metadataKey \in MetadataKeys, metadataValue \in MetadataValues,
        target \in StorageTargets, propertyKey \in OptionalPropertyKeys :
       MetadataDefine(metadataKey, metadataValue, target, propertyKey)
  \/ \E metadataKey \in MetadataKeys, target \in StorageTargets,
        propertyKey \in OptionalPropertyKeys :
       \/ MetadataGet(metadataKey, target, propertyKey)
       \/ MetadataHas(metadataKey, target, propertyKey)
       \/ MetadataDelete(metadataKey, target, propertyKey)
  \/ \E target \in StorageTargets, propertyKey \in OptionalPropertyKeys :
       \/ MetadataGetKeys(target, propertyKey)
       \/ MetadataClear(target, propertyKey)

(***************************************************************************)
(* MetadataReflector: queries over Metadata, with a cache of results per   *)
(* target under a key made of the query and String(propertyKey).           *)
(***************************************************************************)
ReflectorQueries == {"all-metadata", "type"}

\* the propertyKey argument of a query
ReflectedPropertyKeys == SymbolPropertyKeys

DesignType == Str("design:type")

\* the keys defined before the reflector is asked
ReflectedKeys == {Str("k1"), DesignType}

ReflectedTypes == {Str("String")}

\* a result: an object of entries, a value, or the undefined of a cache miss
Reflection(kind, value, entries) == [kind |-> kind, value |-> value, entries |-> entries]

NoReflection == Reflection("undefined", Undefined, <<>>)

\* cached !== undefined is false
IsUndefined(r) == r.kind = "undefined" \/ (r.kind = "value" /\ r.value = Undefined)

CacheKey(query, propertyKey) == query \o ":" \o JsToString(propertyKey)

GetCachedResult(cache, target, key) ==
  LET c == WeakMapGet(cache, NoMap, target) IN
  IF c.defined /\ EntriesHas(c.entries, key) THEN EntriesGet(c.entries, key)
  ELSE NoReflection

SetCachedResult(cache, target, key, value) ==
  [cache EXCEPT ![target] =
     [defined |-> TRUE,
      entries |-> EntriesSet(WeakMapGet(cache, NoMap, target).entries, key, value)]]

\* what a query did: the cache and the storage after it, and the result
Reflected(cache, s, result) == [cache |-> cache, storage |-> s, result |-> result]

\* keys = Metadata.getKeys(...); metadata[key] = Metadata.get(key, ...)
CollectAllMetadata(s, target, propertyKey, keys) ==
  Reflected(<<>>, Count(s, "get", Len(keys)),
            Reflection("object", Undefined,
                       [i \in 1..Len(keys) |->
                          [key |-> keys[i],
                           value |-> StorageGet(s, keys[i], target, propertyKey).value]]))

ComputeAllMetadata(s, target, propertyKey) ==
  CollectAllMetadata(s, target, propertyKey,
                     StorageGetKeys(s, target, propertyKey).keys)

ComputeType(s, target, propertyKey) ==
  Reflected(<<>>, StorageGet(s, DesignType, target, propertyKey).storage,
            Reflection("value", StorageGet(s, DesignType, target, propertyKey).value,
                       <<>>))

Compute(query, s, target, propertyKey) ==
  IF query = "type" THEN ComputeType(s, target, propertyKey)
  ELSE ComputeAllMetadata(s, target, propertyKey)

\* the shape shared by getType and getAllMetadata
CachedOrComputed(cache, s, target, cacheKey, cached, computed) ==
  IF ~IsUndefined(cached) THEN Reflected(cache, s, cached)
  ELSE Reflected(SetCachedResult(cache, target, cacheKey, computed.result),
                 computed.storage, computed.result)

ReflectorQueryOn(query, cache, s, target, propertyKey) ==
  CachedOrComputed(cache, s, target, CacheKey(query, propertyKey),
                   GetCachedResult(cache, target, CacheKey(query, propertyKey)),
                   Compute(query, s, target, propertyKey))

GetAllMetadataOn(cache, s, target, propertyKey) ==
  ReflectorQueryOn("all-metadata", cache, s, target, propertyKey)

GetTypeOn(cache, s, target, propertyKey) ==
  ReflectorQueryOn("type", cache, s, target, propertyKey)

NoReflectorCall ==
  [query |-> "none", target |-> Undefined, propertyKey |-> Undefined,
   result |-> NoReflection]

ReflectorCommit(query, r, target, propertyKey) ==
  /\ reflectionCache' = r.cache
  /\ stats' = r.storage.stats
  /\ lastReflection' = [query |-> query, target |-> target,
                        propertyKey |-> propertyKey, result |-> r.result]
  /\ reflected' = IF reflected[<<target, query, propertyKey>>] = NoReflection
                  THEN [reflected EXCEPT ![<<target, query, propertyKey>>] = r.result]
                  ELSE reflected
  /\ UNCHANGED <<storageClass, targetMetadata, targetPropertyMetadata,
                 lastStorageCall, stored, nStorageCalls, besidesUtilities>>

ReflectorGetAllMetadata(target, propertyKey) ==
  ReflectorCommit("all-metadata",
                  GetAllMetadataOn(reflectionCache, TheStorage, target, propertyKey),
                  target, propertyKey)

ReflectorGetType(target, propertyKey) ==
  ReflectorCommit("type",
                  GetTypeOn(reflectionCache, TheStorage, target, propertyKey),
                  target, propertyKey)

\* clearCache(target?): undefined clears the cache of every target
ReflectorClearCache(target) ==
  /\ reflectionCache' = [t \in StorageEntities |->
                           IF Truthy(target) /\ t # target THEN reflectionCache[t]
                           ELSE NoMap]
  /\ reflected' = [q \in DOMAIN reflected |->
                     IF Truthy(target) /\ q[1] # target THEN reflected[q]
                     ELSE NoReflection]
  /\ lastReflection' = [NoReflectorCall EXCEPT !.query = "clearCache",
                                                !.target = target]
  /\ UNCHANGED <<storageVars, besidesUtilities>>

ReflectorInit ==
  /\ reflectionCache = [t \in StorageEntities |-> NoMap]
  /\ reflected = [q \in StorageEntities \X ReflectorQueries \X ReflectedPropertyKeys |->
                    NoReflection]
  /\ lastReflection = NoReflectorCall

ReflectorNext ==
  \/ \E metadataKey \in ReflectedKeys,
        metadataValue \in ReflectedTypes,
        target \in StorageEntities, propertyKey \in ReflectedPropertyKeys :
       MetadataDefine(metadataKey, metadataValue, target, propertyKey)
  \/ \E target \in StorageEntities, propertyKey \in ReflectedPropertyKeys :
       \/ ReflectorGetAllMetadata(target, propertyKey)
       \/ ReflectorGetType(target, propertyKey)
  \/ \E target \in StorageEntities \cup {Undefined} : ReflectorClearCache(target)

(***************************************************************************)
(* DecoratorRegistry: the registrations by id, and an index of ids by      *)
(* type.  A type the index has no Set for and a type with an empty Set     *)
(* read the same (get(type) || new Set()), so the index is a function to   *)
(* sets of ids.                                                            *)
(***************************************************************************)
DecoratorIds == {"d1", "d2"}

DecoratorTypes == {"validation", "custom"}

\* metadata: Omit<DecoratorMetadata, 'registeredAt'>, by the fields read here
DecoratorMetadata(id, type, enabled) == [id |-> id, type |-> type, enabled |-> enabled]

NoRegistration == DecoratorMetadata("none", "none", FALSE)

\* updates: Partial<DecoratorMetadata>; "unset" is a field left out
MetadataUpdates ==
  [type : DecoratorTypes \cup {"unset"}, enabled : {"unset", "true", "false"}]

\* Object.assign(registration.metadata, updates)
ObjectAssign(metadata, updates) ==
  [metadata EXCEPT
     !.type = IF updates.type = "unset" THEN @ ELSE updates.type,
     !.enabled = IF updates.enabled = "unset" THEN @ ELSE updates.enabled = "true"]

RegistryCall(op, id, result) == [op |-> op, id |-> id, result |-> result]

RegisterDecorator(metadata) ==
  /\ decorators' = [decorators EXCEPT ![metadata.id] = metadata]
  /\ decoratorsByType' = [decoratorsByType EXCEPT ![metadata.type] = @ \cup {metadata.id}]
  /\ registeredIds' = registeredIds \cup {metadata.id}
  /\ lastRegistryCall' = RegistryCall("registerDecorator", metadata.id, TRUE)
  /\ UNCHANGED besidesDecorators

HasDecorator(id) == decorators[id] # NoRegistration

\* the registrations the index leads to, as a set
GetDecoratorsByType(type) ==
  {decorators[id] : id \in {i \in decoratorsByType[type] : HasDecorator(i)}}

UnregisterDecorator(id) ==
  /\ lastRegistryCall' = RegistryCall("unregisterDecorator", id, HasDecorator(id))
  /\ registeredIds' = registeredIds \ {id}
  /\ IF ~HasDecorator(id) THEN UNCHANGED <<decorators, decoratorsByType>>
     ELSE /\ decorators' = [decorators EXCEPT ![id] = NoRegistration]
          /\ decoratorsByType' = [decoratorsByType EXCEPT ![decorators[id].type] = @ \ {id}]
  /\ UNCHANGED besidesDecorators

UpdateDecoratorMetadata(id, updates) ==
  /\ lastRegistryCall' = RegistryCall("updateDecoratorMetadata", id, HasDecorator(id))
  /\ decorators' = IF HasDecorator(id)
                   THEN [decorators EXCEPT ![id] = ObjectAssign(@, updates)]
                   ELSE decorators
  /\ UNCHANGED <<decoratorsByType, registeredIds, besidesDecorators>>

DecoratorRegistryInit ==
  /\ decorators = [id \in DecoratorIds |-> NoRegistration]
  /\ decoratorsByType = [t \in DecoratorTypes |-> {}]
  /\ registeredIds = {}
  /\ lastRegistryCall = RegistryCall("none", "none", FALSE)

DecoratorRegistryNext ==
  \/ \E id \in DecoratorIds, type \in DecoratorTypes, enabled \in BOOLEAN :
       RegisterDecorator(DecoratorMetadata(id, type, enabled))
  \/ \E id \in DecoratorIds : UnregisterDecorator(id)
  \/ \E id \in DecoratorIds, updates \in MetadataUpdates :
       UpdateDecoratorMetadata(id, updates)

(***************************************************************************)
(* ServiceProviderRegistry called directly, without the Application's      *)
(* validateApplicationState in front of it: register, boot, terminate,     *)
(* resolve and canResolve of service-provider-registry.ts.  The boot() of  *)
(* application/src/application.ts is the same code.  Every boot() call     *)
(* that passes `if (this.booted)` has its own sortedProviders and its own  *)
(* place in its loop: bootRuns[k] is the k-th such call, its bootPc        *)
(* "awaiting", "resolved" or "rejected".                                   *)
(***************************************************************************)
MaxBootRuns == 2

MaxTerminateWaiting == 1

besidesDirect ==
  <<contextualVars, containerVars, injectionVars, storageVars, reflectorVars, decoratorVars>>

BootRun(sorted, idx, pc) == [sortedProviders |-> sorted, bootIdx |-> idx, bootPc |-> pc]

NoCanResolve == [identifier |-> "", result |-> FALSE]

DirectRegister(p, cfg, out) ==
  /\ out = "throw" => InvokesRegister(p, cfg) /\ p \in RegisterThrowers
  /\ nRegister < MaxRegisterCalls
  /\ nRegister' = nRegister + 1
  /\ RegistryRegister(p, cfg, out)
  /\ UNCHANGED <<state, bootVars, termVars, loaded, bootCalls, terminateCalls, getResult>>
  /\ UNCHANGED otherVars

\* the loop of run k from entry i of its sortedProviders on, up to its next await
DirectBootFrom(runs, k, sorted, i) ==
  IF i <= Len(sorted)
  THEN /\ bootCalls' = [bootCalls EXCEPT ![sorted[i]] = @ + 1]
       /\ bootRuns' = [runs EXCEPT ![k] = BootRun(sorted, i, "awaiting")]
       /\ UNCHANGED booted
  ELSE /\ booted' = TRUE
       /\ bootRuns' = [runs EXCEPT ![k] = BootRun(sorted, i, "resolved")]
       /\ UNCHANGED bootCalls

\* boot(): returns at once when booted, else sorts and starts its loop
DirectBoot ==
  /\ IF booted
     THEN UNCHANGED <<booted, bootCalls, bootRuns>>
     ELSE /\ Len(bootRuns) < MaxBootRuns
          /\ DirectBootFrom(Append(bootRuns, BootRun(<<>>, 0, "entered")),
                            Len(bootRuns) + 1,
                            GetSortedProviders(providers, providerConfigs), 1)
  /\ UNCHANGED <<state, providers, deferredProviders, terminableProviders,
                 providerConfigs, terminating, bound, loaded, bootVars, termVars,
                 registerCalls, terminateCalls, getResult, nRegister, lastCanResolve>>
  /\ UNCHANGED besidesDirect

\* the boot task run k awaits settles; its loop goes on or its boot() rejects
DirectBootSettle(k, out) ==
  /\ k \in 1..Len(bootRuns)
  /\ bootRuns[k].bootPc = "awaiting"
  /\ IF out = "ok"
     THEN DirectBootFrom(bootRuns, k, bootRuns[k].sortedProviders, bootRuns[k].bootIdx + 1)
     ELSE /\ bootRuns' = [bootRuns EXCEPT ![k].bootPc = "rejected"]
          /\ UNCHANGED <<booted, bootCalls>>
  /\ UNCHANGED <<state, providers, deferredProviders, terminableProviders,
                 providerConfigs, terminating, bound, loaded, bootVars, termVars,
                 registerCalls, terminateCalls, getResult, nRegister, lastCanResolve>>
  /\ UNCHANGED besidesDirect

\* terminate(); a call that finds the registry terminating returns at once
DirectTerminate ==
  /\ terminating => termWaiting < MaxTerminateWaiting
  /\ RegistryTerminate
  /\ UNCHANGED <<state, providers, deferredProviders, terminableProviders,
                 providerConfigs, booted, bound, loaded, bootVars, registerCalls,
                 bootCalls, getResult, nRegister>>
  /\ UNCHANGED otherVars

\* Promise.all has resolved: the terminate() that started the tasks returns
DirectTerminateResume ==
  /\ termPc = "awaiting"
  /\ \A p \in Providers : termTasks[p] # "running"
  /\ termPc' = "done"
  /\ UNCHANGED <<state, registryVars, bound, providerVars, bootVars, termWaiting,
                 termTasks, getResult, nRegister>>
  /\ UNCHANGED otherVars

\* the caller of a terminate() that returned at once resumes
DirectTerminateReturn ==
  /\ termWaiting > 0
  /\ termWaiting' = termWaiting - 1
  /\ UNCHANGED <<state, registryVars, bound, providerVars, bootVars, termPc, termTasks,
                 getResult, nRegister>>
  /\ UNCHANGED otherVars

\* resolve(identifier), which Application.get hands through
DirectResolve(id, regOut, bootOut) == AppGet(id, regOut, bootOut)

\* canResolve(identifier): the value it returns
RegistryCanResolve(id) ==
  \/ id \in bound
  \/ \E p \in Range(deferredProviders) : ProvidesService(p, id)

\* Variant of DirectCanResolve that loads the deferred provider as resolve does
\* before it answers.
DirectCanResolveMaterializing(id) ==
  LET r == LoadDeferredProviderIfNeeded(id, [p \in DeferredShaped |-> "ok"],
                                        [p \in DeferredShaped |-> "ok"])
  IN /\ providers' = r.providers
     /\ deferredProviders' = r.deferredProviders
     /\ terminableProviders' = r.terminableProviders
     /\ registerCalls' = r.registerCalls
     /\ bootCalls' = r.bootCalls
     /\ bound' = r.bound
     /\ lastCanResolve' = [identifier |-> id, result |-> id \in r.bound]
     /\ UNCHANGED <<state, providerConfigs, booted, terminating, loaded, bootVars,
                    termVars, terminateCalls, getResult, nRegister, bootRuns>>
     /\ UNCHANGED besidesDirect

DirectCanResolve(id) ==
  /\ lastCanResolve' = [identifier |-> id, result |-> RegistryCanResolve(id)]
  /\ UNCHANGED <<lifecycleVars, bootRuns>>
  /\ UNCHANGED besidesDirect

DirectInit ==
  /\ bootRuns = <<>>
  /\ lastCanResolve = NoCanResolve

\* the providers handed to the registry here: one plain and terminable, one
\* deferred and terminable
DirectProviders == {"A", "D"}

\* register, boot and terminate in any order and overlap
RegistryNext ==
  \/ \E p \in DirectProviders, cfg \in Configs, out \in Outcomes :
       DirectRegister(p, cfg, out)
  \/ DirectBoot
  \/ \E k \in 1..MaxBootRuns, out \in Outcomes : DirectBootSettle(k, out)
  \/ DirectTerminate
  \/ \E p \in Providers, out \in Outcomes : TerminateTaskSettle(p, out)
  \/ DirectTerminateResume
  \/ DirectTerminateReturn

\* register(provider): `config: IProviderConfig = {}`
DefaultConfigs == {[hasPriority |-> FALSE, priority |-> 0, deferred |-> FALSE]}

\* canResolve among register, boot and resolve
ProbeNext ==
  \/ \E p \in DirectProviders, cfg \in DefaultConfigs, out \in Outcomes :
       DirectRegister(p, cfg, out)
  \/ DirectBoot
  \/ \E k \in 1..MaxBootRuns, out \in Outcomes : DirectBootSettle(k, out)
  \/ \E id \in Identifiers, regOut \in RegisterOutcomes, bootOut \in BootOutcomes :
        DirectResolve(id, regOut, bootOut)
  \/ \E id \in Identifiers : DirectCanResolve(id)

(***************************************************************************)
(* The specification                                                       *)
(***************************************************************************)
UtilitiesInit == ReflectorInit /\ DecoratorRegistryInit /\ DirectInit

Init == ProgramInit /\ InjectionInit /\ StorageInit /\ UtilitiesInit

ResolverInit == ProgramInit /\ DeclaredInit /\ StorageInit /\ UtilitiesInit

MetadataInit == ProgramInit /\ InjectionInit /\ EitherStorageInit /\ UtilitiesInit

Next ==
  \/ \E p \in Providers, cfg \in Configs, out \in Outcomes : AppRegister(p, cfg, out)
  \/ \E id \in Identifiers, regOut \in RegisterOutcomes, bootOut \in BootOutcomes :
        AppGet(id, regOut, bootOut)
  \/ AppBoot
  \/ \E out \in Outcomes : BootTaskSettle(out)
  \/ AppBootResume
  \/ AppTerminate
  \/ \E p \in Providers, out \in Outcomes : TerminateTaskSettle(p, out)
  \/ AppTerminateResume
  \/ AppTerminateResumeWaiting

Spec == Init /\ [][Next]_vars

\* the ContextualBindingManager on its own
ContextualSpec == Init /\ [][ContextualNext]_vars

\* the Container with the ContextualBindingManager it owns
ContainerSpec == Init /\ [][ContainerNext]_vars

BasicContextualSpec == Init /\ [][BasicNext]_vars

InjectionSpec == Init /\ [][InjectionNext]_vars

ResolverSpec == ResolverInit /\ [][ResolverNext]_vars

MetadataSpec == MetadataInit /\ [][MetadataNext]_vars

ReflectorSpec == Init /\ [][ReflectorNext]_vars

DecoratorRegistrySpec == Init /\ [][DecoratorRegistryNext]_vars

\* the ServiceProviderRegistry called directly
RegistrySpec == Init /\ [][RegistryNext]_vars

\* the registry's canResolve
ProbeSpec == Init /\ [][ProbeNext]_vars

TypeOK ==
  /\ state \in ApplicationState
  /\ Range(providers) \subseteq Providers
  /\ Range(deferredProviders) \subseteq Providers
  /\ Range(terminableProviders) \subseteq Providers
  /\ booted \in BOOLEAN
  /\ terminating \in BOOLEAN
  /\ bound \subseteq Identifiers
  /\ bootPc \in {"idle", "awaiting", "resolved", "rejected", "done", "failed"}
  /\ termPc \in {"idle", "awaiting", "done"}

(***************************************************************************)
(* The lifecycle order CREATED < REGISTERED < BOOTING < BOOTED <           *)
(* TERMINATING < TERMINATED                                                *)
(***************************************************************************)
Rank(st) ==
  CASE st = "created" -> 0
    [] st = "registered" -> 1
    [] st = "booting" -> 2
    [] st = "booted" -> 3
    [] st = "terminating" -> 4
    [] st = "terminated" -> 5
    [] OTHER -> 6

\* C1: between two states other than ERROR the application state never moves
\* backwards in the lifecycle order, whatever the interleaving of register, boot,
\* terminate and get.
C1_StateNeverMovesBack ==
  [][(state # "error" /\ state' # "error") => Rank(state') >= Rank(state)]_vars

\* C2: ERROR is terminal: once the application state is ERROR it stays ERROR.
C2_ErrorIsTerminal ==
  [][state = "error" => state' = "error"]_vars

\* C3: when a provider's boot fails during boot(), no provider later in the boot
\* order has its boot invoked, the registry is not marked booted, boot() rejects
\* and the application state becomes ERROR.
C3_NoLaterBoot ==
  \A p \in bootFailures :
    \A j \in 1..Len(sortedProviders) :
      j > IndexOf(sortedProviders, p) => bootCalls[sortedProviders[j]] = 0

C3_BootFailureAborts ==
  [][/\ bootFailures' # {} =>
          /\ ~booted'
          /\ bootPc' \in {"rejected", "failed"}
          /\ C3_NoLaterBoot'
     /\ (bootPc = "rejected" /\ bootPc' # "rejected") =>
          (bootPc' = "failed" /\ state' = "error")]_vars

C3_Witness ==
  /\ bootPc = "failed"
  /\ state = "error"
  /\ Len(sortedProviders) = 2
  /\ bootFailures = {sortedProviders[1]}
  /\ bootCalls[sortedProviders[2]] = 0

\* C4: boot() invokes the providers' boot in descending order of configured
\* priority (a missing priority counts as 0); among equal priorities the provider
\* that entered the active set earlier is booted first.
C4_Priority(p) ==
  IF p \in DOMAIN providerConfigs /\ providerConfigs[p].hasPriority
  THEN providerConfigs[p].priority ELSE 0

C5_BootSequential ==
  /\ Cardinality(bootTasks) <= 1
  /\ bootTasks # {} => bootTasks = {bootLog[Len(bootLog)]}
  /\ \A i \in 1..Len(bootLog) - 1 : bootLog[i] \notin bootTasks

C5_Witness ==
  /\ Len(bootLog) = 2
  /\ bootTasks = {bootLog[2]}

\* C6: terminate() is best-effort: the registry's terminate invokes the terminate
\* of every provider that is in the terminable set when it is called; when all of
\* them have settled, failed or not, Application.terminate sets TERMINATED; no
\* terminate failure makes the state ERROR.
C6_TerminateBestEffort ==
  [][/\ (~terminating /\ terminating') =>
          \A p \in Range(terminableProviders) :
            terminateCalls'[p] = terminateCalls[p] + 1
     /\ (termPc = "awaiting" /\ termPc' = "done") =>
          /\ state' = "terminated"
          /\ \A p \in Providers :
               terminateCalls[p] > 0 => termTasks[p] \in {"ok", "failed"}
     /\ state' = "error" => bootPc' = "failed"]_vars

C6_Witness ==
  /\ termPc = "done"
  /\ state = "terminated"
  /\ \E p, q \in Providers : termTasks[p] = "failed" /\ termTasks[q] = "ok"

\* C7: a deferred provider has its register invoked at most once and its boot
\* invoked at most once, however often register, get and boot are called.
C7_DeferredAtMostOnce ==
  \A p \in DeferredShaped : registerCalls[p] <= 1 /\ bootCalls[p] <= 1

\* C8: for a provider P filed as deferred that provides X: before any get(X),
\* P.isLoaded() is false and P is not in the active list; after a get(X), P.isLoaded()
\* is true and P is in the active list.
C8_LoadedAfterGet ==
  [][\A id \in Identifiers :
       \A p \in DeferredShaped :
         (deferredProviders = <<p>> /\ id \in ProviderDef[p].provides) =>
           /\ getResult[id] = "none" => (~loaded[p] /\ ~MapHas(providers, p))
           /\ (\E regOut \in RegisterOutcomes, bootOut \in BootOutcomes :
                 AppGet(id, regOut, bootOut)) =>
                (loaded'[p] /\ MapHas(providers', p))]_vars

\* C9 as claimed: on resolve(X), every not-yet-loaded deferred provider that
\* provides X is moved into the active set and has register invoked, and has boot
\* invoked exactly when the registry is booted (here: where nothing throws).
C9_AllOk(f) == \A p \in DeferredShaped : f[p] = "ok"

C9_EveryProviderLoaded ==
  [][\A id \in Identifiers :
       \A regOut \in RegisterOutcomes, bootOut \in BootOutcomes :
         (C9_AllOk(regOut) /\ C9_AllOk(bootOut) /\ AppGet(id, regOut, bootOut)) =>
           \A p \in Range(deferredProviders) :
             (id \in ProviderDef[p].provides /\ ~loaded[p]) =>
               /\ MapHas(providers', p)
               /\ registerCalls'[p] = registerCalls[p] + 1
               /\ bootCalls'[p] = bootCalls[p] + (IF booted THEN 1 ELSE 0)]_vars

\* C9 as amended: on resolve(X), the first not-yet-loaded deferred provider, in
\* the order they were filed, that provides X is moved into the active set and has
\* register invoked before the container lookup for X happens, and has boot invoked
\* exactly when the registry is booted and that register returned; when neither
\* call throws, no other provider is moved or invoked.
C9_Candidates(id) ==
  SelectSeq(deferredProviders,
            LAMBDA p : id \in ProviderDef[p].provides /\ ~loaded[p])

C9_Returns(p, regOut, bootOut) ==
  regOut[p] = "ok" /\ (booted => bootOut[p] = "ok")

C9_FirstProviderLoaded ==
  [][\A id \in Identifiers :
       \A regOut \in RegisterOutcomes, bootOut \in BootOutcomes :
         (AppGet(id, regOut, bootOut) /\ C9_Candidates(id) # <<>>) =>
           LET first == Head(C9_Candidates(id))
           IN /\ MapHas(providers', first)
              /\ ~MapHas(deferredProviders', first)
              /\ registerCalls'[first] = registerCalls[first] + 1
              /\ bootCalls'[first] = bootCalls[first]
                   + (IF booted /\ regOut[first] = "ok" THEN 1 ELSE 0)
              /\ (regOut[first] = "ok" /\ id \in ProviderDef[first].binds) =>
                   getResult'[id] = "ok"
              /\ C9_Returns(first, regOut, bootOut) =>
                   \A p \in Providers \ {first} :
                     /\ MapHas(providers', p) = MapHas(providers, p)
                     /\ MapHas(deferredProviders', p) = MapHas(deferredProviders, p)
                     /\ registerCalls'[p] = registerCalls[p]
                     /\ bootCalls'[p] = bootCalls[p]]_vars

C9_Witness ==
  /\ deferredProviders = <<"E">>
  /\ providers = <<"D">>
  /\ registerCalls["D"] = 1
  /\ registerCalls["E"] = 0
  /\ getResult["X"] = "ok"

\* C10: register(provider, config) of a valid provider files a deferred provider in the deferred set
\* without invoking its register and without adding it to the active set; a
\* non-deferred provider is added to the active set and has its register invoked
\* at once, unless config.deferred is set.
C10_RegisterFiles ==
  [][\A p \in Providers, cfg \in Configs, out \in Outcomes :
       (AppRegister(p, cfg, out) /\ ValidateProvider(p)) =>
         IF ProviderDef[p].isDeferred
         THEN /\ MapHas(deferredProviders', p)
              /\ providers' = providers
              /\ registerCalls' = registerCalls
         ELSE /\ MapHas(providers', p)
              /\ deferredProviders' = deferredProviders
              /\ registerCalls' =
                   [registerCalls EXCEPT ![p] = @ + (IF cfg.deferred THEN 0 ELSE 1)]]_vars

C10_Witness ==
  /\ providers = <<"A">>
  /\ deferredProviders = <<"D">>
  /\ registerCalls["A"] = 0
  /\ registerCalls["D"] = 0
  /\ providerConfigs["A"].deferred

\* C11: register of a provider that lacks register or boot, or that declares itself
\* deferred but lacks provides/providesService/isLoaded, or declares itself
\* terminable but lacks terminate, fails (the application state is not advanced)
\* and the provider enters none of the active, deferred, terminable and
\* configuration sets.
C11_Lacks(p) ==
  \/ ~ProviderDef[p].hasRegister
  \/ ~ProviderDef[p].hasBoot
  \/ /\ ProviderDef[p].isDeferred
     /\ ~(ProviderDef[p].hasProvides /\ ProviderDef[p].hasProvidesService
          /\ ProviderDef[p].hasIsLoaded)
  \/ ProviderDef[p].isTerminable /\ ~ProviderDef[p].hasTerminate

C11_InNoSet(p) ==
  /\ ~MapHas(providers, p)
  /\ ~MapHas(deferredProviders, p)
  /\ ~MapHas(terminableProviders, p)
  /\ p \notin DOMAIN providerConfigs

C11_InvalidProviderRejected ==
  [][\A p \in Providers, cfg \in Configs, out \in Outcomes :
       (AppRegister(p, cfg, out) /\ C11_Lacks(p)) =>
         /\ state' = state
         /\ UNCHANGED <<registryVars, bound, registerCalls>>
         /\ C11_InNoSet(p)']_vars

C11_Witness ==
  /\ nRegister = 2
  /\ state = "created"
  /\ providers = <<>>
  /\ deferredProviders = <<>>

\* C12: boot is never invoked on a provider whose register has not been invoked,
\* whatever the sequence of register, boot and get calls.
C12_BootAfterRegister ==
  \A p \in Providers : bootCalls[p] > 0 => registerCalls[p] > 0

\* C13: for an identifier bound with singleton scope, a get that follows a get of
\* it succeeds like the first and returns the same instance.
C13_SingletonBound(id) ==
  /\ Len(bindingDictionary[id]) = 1
  /\ bindingDictionary[id][1].scope = "singleton"

C13_SingletonSameInstance ==
  [][\A id \in Identifiers, caller \in Callers, factoryOut \in Outcomes :
       (/\ ContainerGet(id, caller, factoryOut)
        /\ C13_SingletonBound(id)
        /\ lastGet.id = id
        /\ lastGet.out = "ok") =>
         (lastGet'.out = "ok" /\ lastGet'.value = lastGet.value)]_vars

\* C14 as claimed: for an identifier bound through register with scope 'transient',
\* or through transient(), two sequential gets return distinct instances.
C14_AskedTransient(id) ==
  /\ askedScopes[id] = <<"transient">>
  /\ Len(bindingDictionary[id]) = 1

C14_Distinct(first, second) == second.out = "ok" /\ second.value # first.value

C14_ClassDistinct(id, first, second) ==
  IF bindingDictionary[id][1].type = "Instance"
  THEN /\ C14_Distinct(first, second)
       /\ second.value.type = "object"
       /\ ~second.st.dict[id][1].activated
       /\ second.st.dict[id][1].cache = Undefined
  ELSE /\ second.out = "ok"
       /\ second.value = first.value

C15_ContextualOverride ==
  [][\A id \in Identifiers, caller \in Callers, factoryOut \in Outcomes :
       (/\ ContainerGet(id, caller, factoryOut)
        /\ HasContextualBinding(bindings, caller, Str(id))) =>
         /\ lastGet'.out = "ok"
         /\ lastGet'.value =
              FirstMatch(BindingsGet(bindings, GetContextKey(caller)), Str(id))[1].give]_vars

\* C16: resolveContextual(C, X) returns the implementation of the binding registered
\* for the pair (C, X), and null when no binding is registered for that pair.
C16_Binding(context, serviceIdentifier) ==
  FirstMatch(BindingsGet(bindings, GetContextKey(context)), serviceIdentifier)

C16_OnlyTheBoundPair ==
  [][\A context \in Contexts, serviceIdentifier \in ContextualIdentifiers,
        giveOut \in Outcomes :
       (/\ ManagerResolveContextual(context, serviceIdentifier, giveOut)
        /\ resolved'.out = "ok") =>
         IF C16_Binding(context, serviceIdentifier) = <<>>
         THEN resolved'.value = Null
         ELSE /\ resolved'.value # Null
              /\ C16_Binding(context, serviceIdentifier)[1].give.type # "function" =>
                   resolved'.value = C16_Binding(context, serviceIdentifier)[1].give]_vars

\* C17: registering a second binding for a pair (C, X) that has one replaces the
\* first: one binding is kept for the pair, the second, and it is the one resolved.
C17_Matching(list, needs) == SelectSeq(list, LAMBDA b : MatchesService(b.needs, needs))

C17_SecondReplacesFirst ==
  [][\A when \in Contexts, needs \in ContextualIdentifiers, give \in BasicGives :
       BasicRegisterBinding(ContextualBinding(when, needs, give, Undefined)) =>
         /\ C17_Matching(BindingsGet(bindings', GetContextKey(when)), needs) =
              <<ContextualBinding(when, needs, give, Undefined)>>
         /\ FirstMatch(BindingsGet(bindings', GetContextKey(when)), needs) =
              <<ContextualBinding(when, needs, give, Undefined)>>]_vars

\* C18: while its binding stays registered, the factory of a singleton contextual
\* binding is invoked at most once for its pair and every resolution returns the
\* value it made; the factory of a transient one is invoked on every resolution.
C18_ResolvedBefore(context, serviceIdentifier) ==
  /\ resolved.out = "ok"
  /\ resolved.context = context
  /\ resolved.needs = serviceIdentifier

C18_FactoryPerScope ==
  [][\A context \in Contexts, serviceIdentifier \in ContextualIdentifiers,
        giveOut \in Outcomes :
       (/\ ManagerResolveContextual(context, serviceIdentifier, giveOut)
        /\ C16_Binding(context, serviceIdentifier) # <<>>
        /\ C16_Binding(context, serviceIdentifier)[1].give \in Factories) =>
         IF C16_Binding(context, serviceIdentifier)[1].scope = Str("singleton")
         THEN C18_ResolvedBefore(context, serviceIdentifier) =>
                /\ giveCalls' = giveCalls
                /\ resolved'.value = resolved.value
         ELSE C16_Binding(context, serviceIdentifier)[1].scope = Str("transient") =>
                giveCalls'[C16_Binding(context, serviceIdentifier)[1].give] =
                  giveCalls[C16_Binding(context, serviceIdentifier)[1].give] + 1]_vars

\* C19: registerBinding of a binding that lacks when, needs or give, or whose scope
\* is not one of 'singleton', 'transient', 'request', throws and leaves the
\* registered bindings as they were.
C19_Recognised == {Str("singleton"), Str("transient"), Str("request")}

C19_Lacking(binding) ==
  \/ binding.when = Undefined
  \/ binding.needs = Undefined
  \/ binding.give = Undefined
  \/ binding.scope \notin C19_Recognised \cup {Undefined}

C19_InvalidBindingRejected ==
  [][\A when \in Whens, needs \in Needs, give \in Gives, scope \in BindingScopes :
       (/\ ManagerRegisterBinding(ContextualBinding(when, needs, give, scope))
        /\ C19_Lacking(ContextualBinding(when, needs, give, scope))) =>
         /\ bindingOutcome' = "throw"
         /\ bindings' = bindings]_vars

\* C20: canResolve(X) is true exactly when a get of X would be served (by a binding,
\* a lazy or deferred registration, or a contextual override), and false exactly
\* when the get would fail because nothing is registered for X.
C20_NotFound(r) == r.out = "throw" /\ r.error = "not-registered"

C20_CanResolveExact ==
  \A id \in Identifiers, factoryOut \in Outcomes :
    ContainerCanResolve(id) <=>
      ~C20_NotFound(ContainerGetOn(Store, id, StackDepth, factoryOut))

\* C21: when the lookup for a declaration marked optional fails, resolveProperties
\* assigns undefined to that member, raises no error and goes on with the
\* declarations that remain.
C21_Injections ==
  GetPropertyInjectionsOn(injectionCache, metadataObjects, ownMetadata, TheTarget.text)

C21_Run(outs) ==
  ResolvePropertiesOn(targets, injectionCache, metadataObjects, ownMetadata, TheTarget,
                      outs)

C21_Absorbed(r, i, injection) ==
  /\ r.st.heap[TheTarget.id].props[injection.propertyKey] = Undefined
  /\ r.error.propertyKey # injection.propertyKey
  /\ i < Len(C21_Injections) => Len(r.lookups) > i

C21_OptionalFailureAbsorbed ==
  \A outs \in [Ways -> 0..2], i \in 1..Len(C21_Injections) :
    (/\ C21_Injections[i].optional
     /\ i <= Len(C21_Run(outs).lookups)
     /\ outs[C21_Run(outs).lookups[i].way] = 0) =>
      C21_Absorbed(C21_Run(outs), i, C21_Injections[i])

\* C22: when the lookup for a required declaration fails, resolveProperties throws an
\* error naming the member, the class of the target and the identifier; no later
\* declaration is looked up or injected, and the members injected before it in the
\* call hold the values injected (a member defined by an earlier call holds the
\* value it had).
C22_Injected(r, outs, j) ==
  IF targets[TheTarget.id].props[C21_Injections[j].propertyKey] # Absent
  THEN r.st.heap[TheTarget.id].props[C21_Injections[j].propertyKey] =
         targets[TheTarget.id].props[C21_Injections[j].propertyKey]
  ELSE r.st.heap[TheTarget.id].props[C21_Injections[j].propertyKey] =
         IF outs[r.lookups[j].way] # 0
         THEN Made(Fn(r.lookups[j].way), outs[r.lookups[j].way])
         ELSE Undefined

C22_Aborted(r, outs, i, injection) ==
  /\ r.out = "throw"
  /\ r.error = [name |-> "Error", propertyKey |-> injection.propertyKey,
                serviceIdentifier |-> injection.serviceIdentifier,
                class |-> targets[TheTarget.id].constructor]
  /\ Len(r.lookups) = i
  /\ \A j \in (i + 1)..Len(C21_Injections) :
       r.st.heap[TheTarget.id].props[C21_Injections[j].propertyKey] =
         targets[TheTarget.id].props[C21_Injections[j].propertyKey]
  /\ \A j \in 1..(i - 1) : C22_Injected(r, outs, j)

C22_RequiredFailureAborts ==
  \A outs \in [Ways -> 0..2], i \in 1..Len(C21_Injections) :
    (/\ ~C21_Injections[i].optional
     /\ i <= Len(C21_Run(outs).lookups)
     /\ outs[C21_Run(outs).lookups[i].way] = 0) =>
      C22_Aborted(C21_Run(outs), outs, i, C21_Injections[i])

C22_Witness ==
  /\ lastResolve.out = "throw"
  /\ lastResolve.error.name = "Error"
  /\ lastResolve.error.propertyKey = "b"
  /\ Len(lastResolve.lookups) = 2
  /\ targets[TheTarget.id].props["a"].type = "object"
  /\ targets[TheTarget.id].props["b"] = Absent

\* C23: the value assigned for a declaration comes from the declared factory when
\* there is one, else from getNamed when a name is declared, else from getTagged
\* when a tag is declared, else from get; one of the four is used per declaration.
C23_Precedence(injection) ==
  CASE injection.factory # Undefined -> "factory"
    [] injection.named # Undefined -> "getNamed"
    [] injection.tagged \notin {Undefined, Tags(0)} -> "getTagged"
    [] OTHER -> "get"

C23_OneLookup(r, outs, j, injection) ==
  /\ r.lookups[j] = [propertyKey |-> injection.propertyKey,
                     way |-> C23_Precedence(injection)]
  /\ (/\ targets[TheTarget.id].props[injection.propertyKey] = Absent
      /\ outs[C23_Precedence(injection)] # 0) =>
       r.st.heap[TheTarget.id].props[injection.propertyKey] =
         Made(Fn(C23_Precedence(injection)), outs[C23_Precedence(injection)])

C23_LookupByPrecedence ==
  \A outs \in [Ways -> 0..2] :
    /\ Len(C21_Run(outs).lookups) <= Len(C21_Injections)
    /\ C21_Run(outs).out = "ok" => Len(C21_Run(outs).lookups) = Len(C21_Injections)
    /\ \A j \in 1..Len(C21_Run(outs).lookups) :
         C23_OneLookup(C21_Run(outs), outs, j, C21_Injections[j])

C23_Witness ==
  /\ Len(metadataObjects[1]) = 2
  /\ metadataObjects[1][1].metadata.factory = Undefined
  /\ metadataObjects[1][1].metadata.named = Str("n")
  /\ metadataObjects[1][1].metadata.tagged = Tags(1)
  /\ metadataObjects[1][2].metadata.factory = Fn("make")
  /\ metadataObjects[1][2].metadata.named = Str("n")
  /\ lastResolve.out = "ok"
  /\ lastResolve.lookups = <<[propertyKey |-> "a", way |-> "getNamed"],
                             [propertyKey |-> "b", way |-> "factory"]>>
  /\ targets[TheTarget.id].props["a"] = Made(Fn("getNamed"), 1)
  /\ targets[TheTarget.id].props["b"] = Made(Fn("factory"), 2)

\* C24: getPropertyInjections(type) returns the declarations of type and of its
\* ancestors merged by member name: a member appears at most once, with the
\* declaration of the most-derived level that declares it, and no other member
\* appears.
RECURSIVE C24_Declaration(_, _)
C24_Declaration(cls, propertyKey) ==
  IF cls = "none" THEN <<>>
  ELSE IF EntryIndex(declared[cls], propertyKey) > 0
  THEN <<Injection(propertyKey,
                   declared[cls][EntryIndex(declared[cls], propertyKey)].metadata)>>
  ELSE C24_Declaration(GetPrototypeOf(cls), propertyKey)

C24_Returned(injections, propertyKey) ==
  SelectSeq(injections, LAMBDA injection : injection.propertyKey = propertyKey)

C24_MergedByMember ==
  \A cls \in DeclaringClasses, propertyKey \in MemberKeys :
    ~injectionCache[cls].cached =>
      C24_Returned(GetPropertyInjectionsOn(injectionCache, metadataObjects, ownMetadata,
                                           cls),
                   propertyKey) = C24_Declaration(cls, propertyKey)

\* C25: entity-scoped and member-scoped metadata of the same entity are
\* independent: set, delete and clear in one scope leave what get, has and
\* getKeys return in the other scope as it was, and a value set in one scope is
\* what that scope returns, whatever the other scope holds under the key.
C25_View(s, target, propertyKey) ==
  [get |-> [k \in MetadataKeys |-> StorageGet(s, k, target, propertyKey).value],
   has |-> [k \in MetadataKeys |-> StorageHas(s, k, target, propertyKey).value],
   keys |-> StorageGetKeys(s, target, propertyKey).keys]

C25_Writes(target, here) ==
  {StorageSet(TheStorage, k, v, target, here).storage :
     k \in MetadataKeys, v \in MetadataValues}
  \cup {StorageDelete(TheStorage, k, target, here).storage : k \in MetadataKeys}
  \cup {StorageClear(TheStorage, target, here).storage}

C25_ScopesIndependent ==
  \A target \in StorageEntities, here \in OptionalPropertyKeys,
     there \in OptionalPropertyKeys :
    (here = Undefined) # (there = Undefined) =>
      /\ \A after \in C25_Writes(target, here) :
           C25_View(after, target, there) = C25_View(TheStorage, target, there)
      /\ \A k \in MetadataKeys, v \in MetadataValues :
           StorageGet(StorageSet(TheStorage, k, v, target, here).storage, k, target,
                      here).value = v

C25_Witness ==
  /\ lastStorageCall.op = "clear"
  /\ lastStorageCall.propertyKey = Undefined
  /\ <<lastStorageCall.target, Undefined>> \in stored
  /\ \E k \in MetadataKeys, p \in StoragePropertyKeys :
       /\ StorageGet(TheStorage, k, lastStorageCall.target, p).value \in MetadataValues
       /\ StorageGet(TheStorage, k, lastStorageCall.target, Undefined).value = Undefined

\* C26: get, has, delete and getKeys on an entity or member for which nothing
\* was ever stored do not fail and leave every stored association as it was:
\* get returns undefined, has false, delete false and getKeys the empty list.
C26_SameAssociations(r) ==
  /\ r.out = "return"
  /\ r.storage.targetMetadata = targetMetadata
  /\ r.storage.targetPropertyMetadata = targetPropertyMetadata

C26_EmptyResults(k, target, p) ==
  /\ C26_SameAssociations(StorageGet(TheStorage, k, target, p))
  /\ StorageGet(TheStorage, k, target, p).value = Undefined
  /\ C26_SameAssociations(StorageHas(TheStorage, k, target, p))
  /\ StorageHas(TheStorage, k, target, p).value = Bool(FALSE)
  /\ C26_SameAssociations(StorageDelete(TheStorage, k, target, p))
  /\ StorageDelete(TheStorage, k, target, p).value = Bool(FALSE)
  /\ C26_SameAssociations(StorageGetKeys(TheStorage, target, p))
  /\ StorageGetKeys(TheStorage, target, p).keys = <<>>

C27_SetThenGet(k, target, p) ==
  \A v \in MetadataValues :
    LET r == StorageSet(TheStorage, k, v, target, p) IN
    /\ r.out = "return"
    /\ StorageGet(r.storage, k, target, p).value = v
    /\ StorageHas(r.storage, k, target, p).value = Bool(TRUE)

C27_Same(after, k, target, p) ==
  /\ StorageGet(after, k, target, p).value = StorageGet(TheStorage, k, target, p).value
  /\ StorageHas(after, k, target, p).value = StorageHas(TheStorage, k, target, p).value

C27_Kept(k, target, p) ==
  \A k2 \in MetadataKeys, t2 \in StorageTargets, p2 \in OptionalPropertyKeys :
    /\ <<k2, t2, p2>> # <<k, target, p>> =>
         /\ \A v \in MetadataValues :
              C27_Same(StorageSet(TheStorage, k2, v, t2, p2).storage, k, target, p)
         /\ C27_Same(StorageDelete(TheStorage, k2, t2, p2).storage, k, target, p)
    /\ <<t2, p2>> # <<target, p>> =>
         C27_Same(StorageClear(TheStorage, t2, p2).storage, k, target, p)
    /\ C27_Same(StorageGet(TheStorage, k2, t2, p2).storage, k, target, p)

C27_Delete(k, target, p) ==
  LET r == StorageDelete(TheStorage, k, target, p) IN
  /\ r.value = StorageHas(TheStorage, k, target, p).value
  /\ StorageHas(r.storage, k, target, p).value = Bool(FALSE)
  /\ StorageGet(r.storage, k, target, p).value = Undefined
  /\ StorageDelete(r.storage, k, target, p).value = Bool(FALSE)

C27_Clear(k, target, p) ==
  LET r == StorageClear(TheStorage, target, p) IN
  /\ StorageGetKeys(r.storage, target, p).keys = <<>>
  /\ StorageHas(r.storage, k, target, p).value = Bool(FALSE)

C27_StoreAlgebra ==
  \A k \in MetadataKeys, target \in StorageEntities, p \in OptionalPropertyKeys :
    /\ C27_SetThenGet(k, target, p)
    /\ C27_Kept(k, target, p)
    /\ C27_Delete(k, target, p)
    /\ C27_Clear(k, target, p)

C27_Witness ==
  /\ lastStorageCall.op = "delete"
  /\ lastStorageCall.value = Bool(TRUE)
  /\ StorageHas(TheStorage, lastStorageCall.metadataKey, lastStorageCall.target,
                lastStorageCall.propertyKey).value = Bool(FALSE)
  /\ StorageGetKeys(TheStorage, lastStorageCall.target,
                    lastStorageCall.propertyKey).keys # <<>>

\* C28: a query of the reflector on a (type, query) pair returns the result of
\* the first such query since the cache was last cleared for the type, and
\* when there was none it returns what the current metadata store gives for
\* that pair, never what was cached for another pair.
C28_Expected(target, query, propertyKey) ==
  IF reflected[<<target, query, propertyKey>>] # NoReflection
  THEN reflected[<<target, query, propertyKey>>]
  ELSE Compute(query, TheStorage, target, propertyKey).result

C28_CachedPerQuery ==
  \A target \in StorageEntities, query \in ReflectorQueries,
     propertyKey \in ReflectedPropertyKeys :
    ReflectorQueryOn(query, reflectionCache, TheStorage, target, propertyKey).result
      = C28_Expected(target, query, propertyKey)

\* C29: for an identifier only lazyLoad and get were called with, the lazy
\* factory is invoked at most once, every lazyLoad and get that returns
\* returns the one instance the factory produced, and after lazyLoad returns
\* the identifier is bound and no longer in lazyServices.
C29_Instances(h) == {i \in 1..Len(h) : h[i].constructor = "Lazy"}

C29_TheInstance(r) ==
  r.out = "ok" =>
    /\ Cardinality(C29_Instances(r.st.heap)) = 1
    /\ r.value.id \in C29_Instances(r.st.heap)

C29_Loaded(r, id) ==
  r.out = "ok" => IsBound(r.st.dict, id) /\ id \notin r.st.lazy

C29_LazyOnce ==
  \A id \in LazyIdentifiers :
    askedScopes[id] = <<>> =>
      /\ factoryCalls[id] <= 1
      /\ \A factoryOut \in Outcomes :
           /\ C29_TheInstance(LazyLoadOn(Store, id, StackDepth, factoryOut))
           /\ C29_Loaded(LazyLoadOn(Store, id, StackDepth, factoryOut), id)
           /\ C29_TheInstance(ContainerGetOn(Store, id, StackDepth, factoryOut))

\* C30: after any sequence of registerDecorator, unregisterDecorator and
\* updateDecoratorMetadata, getDecoratorsByType(t) returns exactly the
\* registered decorators whose metadata type is t, and hasDecorator(id) is
\* true exactly for the ids registered and not unregistered since.
C30_OfType(type) ==
  {decorators[id] : id \in {i \in registeredIds : decorators[i].type = type}}

C30_IndexExact ==
  /\ \A type \in DecoratorTypes : GetDecoratorsByType(type) = C30_OfType(type)
  /\ \A id \in DecoratorIds : HasDecorator(id) <=> id \in registeredIds

\* C31: once the registry's boot() has completed, every provider of the
\* active set has had its boot invoked, a deferred provider included that
\* resolve() promoted while boot() was awaiting another provider's boot.
C31_ActiveProvidersBooted ==
  booted => \A p \in Range(providers) : bootCalls[p] >= 1

\* C32: each active provider's boot is invoked at most once over any sequence
\* of boot() calls on the registry, a second boot() issued while the first
\* is still awaiting a provider included.
C32_BootAtMostOnce ==
  \A p \in Providers : bootCalls[p] <= 1

\* C33: each terminable provider's terminate is invoked at most once over any
\* sequence of terminate() calls, a terminate() issued while an earlier one
\* is still waiting for the providers to settle included.
C33_TerminateAtMostOnce ==
  \A p \in Providers : terminateCalls[p] <= 1

\* a second terminate() has returned at once while a provider is terminating
C33_Witness ==
  /\ termWaiting > 0
  /\ termPc = "awaiting"
  /\ \E p \in Range(terminableProviders) :
       termTasks[p] = "running" /\ terminateCalls[p] = 1

\* C34: once terminate() has started, no provider's register or boot is
\* invoked any more; a get issued during or after termination does not
\* promote, register or boot a deferred provider.
C34_QuietOnceTerminating ==
  [][terminating =>
       /\ registerCalls' = registerCalls
       /\ bootCalls' = bootCalls
       /\ providers' = providers
       /\ deferredProviders' = deferredProviders]_vars

\* C35: in every reachable registry state no provider is in both the deferred
\* set and the active set, and every provider of the terminable set is in the
\* active set, for any sequence of register and resolve calls.
C35_SetsConsistent ==
  /\ Range(deferredProviders) \cap Range(providers) = {}
  /\ Range(terminableProviders) \subseteq Range(providers)

\* C36: a failed registration leaves no trace: when register(provider, config)
\* fails because the provider's own register raises, the provider is in none
\* of the active, terminable and configuration sets afterwards, so a later
\* boot() does not boot it, and the Application state is unchanged.
C36_NoTrace(p) ==
  /\ ~MapHas(providers, p)
  /\ ~MapHas(terminableProviders, p)
  /\ p \notin DOMAIN providerConfigs

C36_FailedRegisterLeavesNoTrace ==
  [][\A p \in Providers, cfg \in Configs :
       (AppRegister(p, cfg, "throw") /\ C36_NoTrace(p)) =>
         /\ state' = state
         /\ C36_NoTrace(p)']_vars

\* C37: property injection is idempotent per instance: resolveProperties run
\* again on an instance whose members were already injected raises no error
\* and leaves every injected member holding the value assigned the first
\* time, whatever the scope of the dependency (every lookup succeeds, with
\* the same object or with a new one).
C37_Injected ==
  /\ lastResolve.out = "ok"
  /\ C21_Injections # <<>>
  /\ \A i \in 1..Len(C21_Injections) :
       targets[TheTarget.id].props[C21_Injections[i].propertyKey] # Absent

C37_InjectionIdempotent ==
  \A outs \in [Ways -> 1..2] :
    C37_Injected =>
      /\ C21_Run(outs).out = "ok"
      /\ C21_Run(outs).st.heap = targets

\* C38: an injection declaration belongs to the type that declares it:
\* declaring an injected member on a derived type, with Inject or
\* InjectOptional, never adds or changes a declaration in the metadata of
\* its base type, so getPropertyInjections(base) is the same before and after.
C38_DeclaredOnDerived ==
  \E propertyKey \in MemberKeys, serviceIdentifier \in InjectedIdentifiers :
    \/ DecoratorInject("Derived", propertyKey, serviceIdentifier)
    \/ DecoratorInjectOptional("Derived", propertyKey, serviceIdentifier)

C38_BaseUntouched ==
  [][C38_DeclaredOnDerived =>
       /\ PropertyMetadata(metadataObjects', ownMetadata', "Base") =
            PropertyMetadata(metadataObjects, ownMetadata, "Base")
       /\ GetPropertyInjectionsOn(injectionCache', metadataObjects', ownMetadata', "Base") =
            GetPropertyInjectionsOn(injectionCache, metadataObjects, ownMetadata, "Base")]_vars

\* C39: the contextual resolution cache never serves a stale value: once the
\* binding of a (context, identifier) pair is replaced by registerBinding or
\* removed by removeBinding or clear, resolveContextual for the pair never
\* returns the value cached for the earlier binding, and every cache entry
\* corresponds to a currently registered singleton-scoped binding.
C39_ValueOf(binding, value) ==
  IF binding.give.type = "function"
  THEN \E n \in 1..giveCalls[binding.give] : value = Made(binding.give, n)
  ELSE value = binding.give

C39_EntryOf(cacheKey, contextKey, binding) ==
  /\ cacheKey = contextKey \o ":" \o JsToString(binding.needs)
  /\ binding.scope = Str("singleton")
  /\ C39_ValueOf(binding, resolutionCache[cacheKey])

C39_CacheNeverStale ==
  \A cacheKey \in DOMAIN resolutionCache :
    \E contextKey \in DOMAIN bindings :
      \E i \in 1..Len(bindings[contextKey]) :
        C39_EntryOf(cacheKey, contextKey, bindings[contextKey][i])

\* a pair's binding was registered anew and the pair resolved from it again
C39_Witness ==
  /\ nRegisterBinding = 2
  /\ bindingOutcome = "ok"
  /\ resolutionCache # <<>>
  /\ resolved.out = "ok"
  /\ \E contextKey \in DOMAIN bindings :
       /\ DOMAIN bindings = {contextKey}
       /\ Len(bindings[contextKey]) = 1
       /\ bindings[contextKey][1].give = Fn("F")
       /\ resolved.needs = bindings[contextKey][1].needs
       /\ resolved.value = Made(Fn("F"), 2)

====
